---- MODULE Spec2Model ----
(***************************************************************************)
(* A model of the quake.apply specialization pass                          *)
(* (lib/Optimizer/Transforms/ApplyOpSpecialization.cpp) and of the parts   *)
(* of the CC dialect it rests on (lib/Optimizer/Dialect/CC/CCOps.cpp).     *)
(*                                                                         *)
(* The IR is modelled structurally: an operation is a record with a kind,  *)
(* a name, unit attributes, operand segment sizes, an integer attribute,   *)
(* operands, results and regions; a region is a sequence of blocks; a      *)
(* block has arguments and a sequence of operations, the last of which is  *)
(* its terminator.  An SSA value is a record with a unique id.             *)
(***************************************************************************)
EXTENDS Integers, Sequences, FiniteSets, TLC

VARIABLES
  input,     \* the module as it was handed to the pass
  module,    \* the ModuleOp: the sequence of its globals (func.func records)
  infoMap,   \* ApplyOpAnalysis::infoMap: kernel name -> ApplyVariants
  walk,      \* number of apply-sites the analysis walk has visited
  gidx,      \* step1: index of the next global of the module to look at
  failed,    \* the pass failure flag set by signalPassFailure()
  errors,    \* the diagnostics emitted by emitError(), in order
  pc,        \* position of the running specification
  loopSt,    \* loop reversal: the loops, the machine state and the traces
  regionSt   \* classifier: the region under test and the answer

vars == <<input, module, infoMap, walk, gidx, failed, errors, pc, loopSt, regionSt>>

(***************************************************************************)
(* Bounds of the model.                                                    *)
(***************************************************************************)
Width == 5        \* bit width of the modelled integer type iN
MaxIter == 40     \* cap on the iterations the loop machine runs
MaxGates == 3     \* primitive gates in a generated kernel body
MaxApplies == 2   \* apply-sites in the entry-point function
MaxControls == 2  \* control operands of one apply-site

(***************************************************************************)
(* Values, operations, blocks.                                             *)
(***************************************************************************)
Val(id) == [id |-> id, neg |-> 0]

\* The null Value.
NoVal == Val("")

MkOp(kind, name, operands, results, regions) ==
  [kind |-> kind, name |-> name, attrs |-> {}, seg |-> <<>>, imm |-> 0,
   operands |-> operands, results |-> results, regions |-> regions]

\* The null Operation*.
NoOp == MkOp("none", "", <<>>, <<>>, <<>>)

MkBlock(args, ops) == [args |-> args, ops |-> ops]

Front(s) == s[1]

Back(s) == s[Len(s)]

DropBack(s) == SubSeq(s, 1, Len(s) - 1)

Terminator(block) == Back(block.ops)

Range(s) == {s[i] : i \in DOMAIN s}

Reverse(s) == [i \in 1..Len(s) |-> s[Len(s) + 1 - i]]

RECURSIVE Flatten(_)
Flatten(ss) == IF ss = <<>> THEN <<>> ELSE Front(ss) \o Flatten(Tail(ss))

\* Value::getDefiningOp() among the operations `ops`; NoOp for a block
\* argument or a value no operation of `ops` defines.
DefiningOp(v, ops) ==
  IF \E i \in DOMAIN ops : v \in Range(ops[i].results)
    THEN ops[CHOOSE i \in DOMAIN ops : v \in Range(ops[i].results)]
    ELSE NoOp

RECURSIVE NestedOps(_)
\* Every operation nested in the regions of op, at any depth (Operation::walk).
NestedOps(op) ==
  UNION { UNION { UNION { {op.regions[r][b].ops[i]}
                            \cup NestedOps(op.regions[r][b].ops[i])
                          : i \in DOMAIN op.regions[r][b].ops }
                  : b \in DOMAIN op.regions[r] }
          : r \in DOMAIN op.regions }

\* cudaq::opt::internal::hasCharacteristic for the predicate "kind in kinds".
hasCharacteristic(kinds, op) ==
  op.kind \in kinds \/ \E o \in NestedOps(op) : o.kind \in kinds

(***************************************************************************)
(* Integer arithmetic of width Width (two's complement, wrapping).         *)
(***************************************************************************)
Pow2(n) == 2 ^ n

Wrap(x) == ((x + Pow2(Width - 1)) % Pow2(Width)) - Pow2(Width - 1)

Abs(x) == IF x < 0 THEN 0 - x ELSE x

\* arith.divsi: signed division rounding toward zero (b # 0).
DivS(a, b) ==
  IF (a < 0) = (b < 0) THEN Abs(a) \div Abs(b) ELSE 0 - (Abs(a) \div Abs(b))

CmpI(pred, a, b) ==
  CASE pred = "slt" -> a < b
    [] pred = "sle" -> a <= b
    [] pred = "sgt" -> a > b
    [] pred = "sge" -> a >= b
    [] pred = "eq" -> a = b
    [] OTHER -> a # b

(***************************************************************************)
(* cc.loop.  operands = the initial arguments, regions = <<while, body,    *)
(* step>>, the unit attribute "post_cond" marks a do-while loop.  A        *)
(* cc.condition has operands <<condition>> \o results.  A memref.store     *)
(* has operands <<value, memref>>, a memref.load <<memref>>; the name of a *)
(* memref.alloca is the element shape of its type.                         *)
(***************************************************************************)
getWhileRegion(loop) == loop.regions[1]

getBodyRegion(loop) == loop.regions[2]

getStepRegion(loop) == loop.regions[3]

isPostConditional(loop) == "post_cond" \in loop.attrs

hasStep(loop) == getStepRegion(loop) # <<>>

\* The operations a value used in the loop's top-level blocks can be defined
\* by: those outside the loop and those of the three blocks.
LoopScope(loop, outer) ==
  outer \o Back(getWhileRegion(loop)).ops \o Back(getBodyRegion(loop)).ops
        \o (IF hasStep(loop) THEN Back(getStepRegion(loop)).ops ELSE <<>>)

IsAddOrSub(op) == op.kind \in {"addi", "subi"}

\* The value matcher when it does not look at what the condition terminator
\* forwards.
hasMonotonicPHIControlAnyForward(loop, outer) ==
  IF loop.operands = <<>> \/ loop.results = <<>> THEN FALSE
  ELSE
    LET whileBlock == Back(getWhileRegion(loop))
        condition == Back(whileBlock.ops)
        bodyBlock == Back(getBodyRegion(loop))
        stepBlock == Back(getStepRegion(loop))
    IN /\ condition.kind = "condition"
       /\ whileBlock.args[1]
            \in Range(DefiningOp(condition.operands[1],
                                 LoopScope(loop, outer)).operands)
       /\ Back(bodyBlock.ops).kind = "continue"
       /\ bodyBlock.args[1] = Back(bodyBlock.ops).operands[1]
       /\ Back(stepBlock.ops).kind = "continue"
       /\ IsAddOrSub(DefiningOp(Back(stepBlock.ops).operands[1],
                                LoopScope(loop, outer)))
       /\ stepBlock.args[1]
            \in Range(DefiningOp(Back(stepBlock.ops).operands[1],
                                 LoopScope(loop, outer)).operands)

hasMonotonicPHIControl(loop, outer) ==
  IF loop.operands = <<>> \/ loop.results = <<>> THEN FALSE
  ELSE
    LET whileBlock == Back(getWhileRegion(loop))
        condition == Back(whileBlock.ops)
    IN
    IF condition.kind # "condition" \/ whileBlock.args[1] # condition.operands[2]
      THEN FALSE
    ELSE
      LET cmpOp == DefiningOp(condition.operands[1], LoopScope(loop, outer))
          bodyBlock == Back(getBodyRegion(loop))
          bodyTermOp == Back(bodyBlock.ops)
      IN
      IF whileBlock.args[1] \notin Range(cmpOp.operands) THEN FALSE
      ELSE IF bodyTermOp.kind # "continue"
                \/ bodyBlock.args[1] # bodyTermOp.operands[1] THEN FALSE
      ELSE
        LET stepBlock == Back(getStepRegion(loop))
            backedgeOp == Back(stepBlock.ops)
        IN
        IF backedgeOp.kind # "continue" THEN FALSE
        ELSE
          LET mutateOp == DefiningOp(backedgeOp.operands[1],
                                     LoopScope(loop, outer))
          IN IsAddOrSub(mutateOp)
               /\ stepBlock.args[1] \in Range(mutateOp.operands)

\* Induction must be a scalar integral type.
ScalarIntegral(alloc) == alloc.name = "i64"

RECURSIVE comparisonTempsFrom(_, _, _, _)
\* The do-while of populateComparisonTemps: `worklist` is a stack of
\* operations, `results` the allocas found so far.
comparisonTempsFrom(worklist, results, whileBlock, scope) ==
  IF worklist = <<>> THEN results
  ELSE
    LET op == Back(worklist)
        rest == DropBack(worklist)
    IN
    IF op.kind = "load"
      THEN LET defOp == DefiningOp(op.operands[1], scope) IN
           comparisonTempsFrom(rest,
             IF defOp.kind = "alloca" /\ ScalarIntegral(defOp)
               THEN Append(results, defOp) ELSE results,
             whileBlock, scope)
      ELSE LET defs == [i \in DOMAIN op.operands |->
                          DefiningOp(op.operands[i], whileBlock.ops)]
               pushed == SelectSeq(defs, LAMBDA d : d # NoOp)
           IN comparisonTempsFrom(rest \o pushed, results, whileBlock, scope)

populateComparisonTemps(cmpOp, whileBlock, scope) ==
  comparisonTempsFrom(<<cmpOp>>, <<>>, whileBlock, scope)

\* The cell a load or a store addresses: the operation defining its memref.
MemRefDef(op, scope) ==
  DefiningOp(IF op.kind = "store" THEN op.operands[2] ELSE op.operands[1],
             scope)

\* The count when it is a count of the stores that match, not of their
\* operands.
matchedStoreCount(stepBlock, comparisonTemps, scope) ==
  Cardinality(
    { i \in DOMAIN stepBlock.ops :
        LET storeOp == stepBlock.ops[i]
            def == DefiningOp(storeOp.operands[1], scope)
        IN /\ storeOp.kind = "store"
           /\ MemRefDef(storeOp, scope) \in Range(comparisonTemps)
           /\ def # NoOp
           /\ IsAddOrSub(def)
           /\ \E k \in {1, 2} :
                /\ DefiningOp(def.operands[k], scope).kind = "load"
                /\ MemRefDef(storeOp, scope)
                     = MemRefDef(DefiningOp(def.operands[k], scope), scope) })

\* The number of (store, operand) pairs hasMonotonicLCV counts in the step
\* block.
matchedWhileVariableCount(stepBlock, comparisonTemps, scope) ==
  Cardinality(
    { p \in (DOMAIN stepBlock.ops) \X {1, 2} :
        LET storeOp == stepBlock.ops[p[1]]
            def == DefiningOp(storeOp.operands[1], scope)
        IN /\ storeOp.kind = "store"
           /\ MemRefDef(storeOp, scope) \in Range(comparisonTemps)
           /\ def # NoOp
           /\ IsAddOrSub(def)
           /\ LET loadOp == DefiningOp(def.operands[p[2]], scope) IN
                /\ loadOp.kind = "load"
                /\ MemRefDef(storeOp, scope) = MemRefDef(loadOp, scope) })

\* The memory matcher when it does not look at the loop-carried values.
hasMonotonicLCVWithCarriedValues(loop, outer) ==
  LET scope == LoopScope(loop, outer)
      whileBlock == Back(getWhileRegion(loop))
      condition == Back(whileBlock.ops)
  IN /\ condition.kind = "condition"
     /\ DefiningOp(condition.operands[1], scope).kind = "cmpi"
     /\ matchedWhileVariableCount(
          Back(getStepRegion(loop)),
          populateComparisonTemps(DefiningOp(condition.operands[1], scope),
                                  whileBlock, scope),
          scope) = 1

hasMonotonicLCV(loop, outer) ==
  IF loop.operands # <<>> /\ loop.results # <<>> THEN FALSE
  ELSE
    LET scope == LoopScope(loop, outer)
        whileBlock == Back(getWhileRegion(loop))
        condition == Back(whileBlock.ops)
    IN
    IF condition.kind # "condition" THEN FALSE
    ELSE
      LET cmpOp == DefiningOp(condition.operands[1], scope) IN
      IF cmpOp.kind # "cmpi" THEN FALSE
      ELSE
        LET comparisonTemps == populateComparisonTemps(cmpOp, whileBlock, scope)
            stepBlock == Back(getStepRegion(loop))
        IN matchedWhileVariableCount(stepBlock, comparisonTemps, scope) = 1

hasMonotonicControlInduction(loop, outer) ==
  hasMonotonicLCV(loop, outer) \/ hasMonotonicPHIControl(loop, outer)

\* isaCountedLoop when it lets a post-conditional loop through.
isaCountedLoopOfAnyConditional(op, outer) ==
  IF op.kind = "loop"
    THEN IF ~hasStep(op) THEN FALSE
         ELSE LET reg == getBodyRegion(op) IN
              /\ reg # <<>>
              /\ Len(reg) = 1
              /\ Terminator(Front(reg)).kind = "continue"
              /\ hasMonotonicControlInduction(op, outer)
    ELSE FALSE

isaCountedLoop(op, outer) ==
  IF op.kind = "loop"
    THEN IF isPostConditional(op) \/ ~hasStep(op) THEN FALSE
         ELSE LET reg == getBodyRegion(op) IN
              /\ reg # <<>>
              /\ Len(reg) = 1
              /\ Terminator(Front(reg)).kind = "continue"
              /\ hasMonotonicControlInduction(op, outer)
    ELSE FALSE

\* The classifier when it looks at the operations of the one block without
\* going into their regions.
shallowUnstructuredControlFlow(region, outer) ==
  IF region = <<>> THEN FALSE
  ELSE IF Len(region) # 1 THEN TRUE
  ELSE \E i \in DOMAIN Front(region).ops :
         LET op == Front(region).ops[i] IN
         /\ op.kind # "if"
         /\ ~isaCountedLoop(op, outer \o Front(region).ops)
         /\ Len(op.regions) > 1

RECURSIVE regionHasUnstructuredControlFlow(_, _)
regionHasUnstructuredControlFlow(region, outer) ==
  IF region = <<>> THEN FALSE
  ELSE IF Len(region) # 1 THEN TRUE
  ELSE
    LET block == Front(region)
        inner == outer \o block.ops
    IN \E i \in DOMAIN block.ops :
         LET op == block.ops[i] IN
         /\ Len(op.regions) # 0
         /\ \/ /\ op.kind # "if"
               /\ ~isaCountedLoop(op, inner)
               /\ Len(op.regions) > 1
            \/ \E r \in DOMAIN op.regions :
                 regionHasUnstructuredControlFlow(op.regions[r], inner)

(***************************************************************************)
(* Execution of the integer part of the IR.  A machine state has the       *)
(* values bound so far (env), the contents of the memory cells (mem, keyed *)
(* by the alloca's result) and ok, which turns FALSE when an operation     *)
(* reads a value that is not bound, a cell never stored to, or divides by  *)
(* zero.                                                                   *)
(***************************************************************************)
EmptyMachine == [env |-> << >>, mem |-> << >>, ok |-> TRUE]

Bind(st, v, x) == [st EXCEPT !.env = (v :> x) @@ @]

Bound(st, vs) == \A i \in DOMAIN vs : vs[i] \in DOMAIN st.env

Stuck(st) == [st EXCEPT !.ok = FALSE]

ExecOp(op, st) ==
  LET a(i) == st.env[op.operands[i]]
      r == op.results[1]
  IN
  IF op.kind \in {"addi", "subi", "muli", "divsi", "cmpi", "select"}
    THEN IF ~Bound(st, op.operands) THEN Stuck(st)
         ELSE CASE op.kind = "addi" -> Bind(st, r, Wrap(a(1) + a(2)))
                [] op.kind = "subi" -> Bind(st, r, Wrap(a(1) - a(2)))
                [] op.kind = "muli" -> Bind(st, r, Wrap(a(1) * a(2)))
                [] op.kind = "divsi" ->
                     IF a(2) = 0 THEN Stuck(st)
                     ELSE Bind(st, r, Wrap(DivS(a(1), a(2))))
                [] op.kind = "cmpi" ->
                     Bind(st, r, IF CmpI(op.name, a(1), a(2)) THEN 1 ELSE 0)
                [] OTHER -> Bind(st, r, IF a(1) # 0 THEN a(2) ELSE a(3))
  ELSE IF op.kind = "constant" THEN Bind(st, r, op.imm)
  ELSE IF op.kind = "load"
    THEN IF op.operands[1] \in DOMAIN st.mem
           THEN Bind(st, r, st.mem[op.operands[1]])
           ELSE Stuck(st)
  ELSE IF op.kind = "store"
    THEN IF op.operands[1] \in DOMAIN st.env
           THEN [st EXCEPT !.mem = (op.operands[2] :> a(1)) @@ @]
           ELSE Stuck(st)
  ELSE st

RECURSIVE ExecOps(_, _)
ExecOps(ops, st) ==
  IF ops = <<>> THEN st ELSE ExecOps(Tail(ops), ExecOp(Head(ops), st))

\* One block run with its arguments bound to argvals: the machine state at
\* its terminator and the values of the terminator's operands.
ExecBlock(block, argvals, st) ==
  IF Len(block.args) # Len(argvals) THEN [st |-> Stuck(st), outs |-> <<>>]
  ELSE
    LET st1 == [st EXCEPT !.env = [v \in Range(block.args) |->
                    argvals[CHOOSE i \in DOMAIN block.args : block.args[i] = v]]
                  @@ @]
        st2 == ExecOps(DropBack(block.ops), st1)
        term == Back(block.ops)
    IN IF Bound(st2, term.operands)
         THEN [st |-> st2,
               outs |-> [i \in DOMAIN term.operands |-> st2.env[term.operands[i]]]]
         ELSE [st |-> Stuck(st2), outs |-> <<>>]

\* What the body sees as the induction variable: its first argument, or the
\* content of the induction cell.
Induction(cell, bodyArgs, st) ==
  IF cell = NoVal THEN (IF bodyArgs = <<>> THEN 0 ELSE bodyArgs[1])
  ELSE IF cell \in DOMAIN st.mem THEN st.mem[cell] ELSE 0

\* One trip round a pre-conditional cc.loop from the carried values: the
\* while region, and when it continues the body and the step region.
LoopTrip(loop, cell, carried, st) ==
  LET w == ExecBlock(Back(getWhileRegion(loop)), carried, st) IN
  IF ~w.st.ok \/ w.outs = <<>>
    THEN [exit |-> TRUE, st |-> Stuck(w.st), carried |-> <<>>, seen |-> 0]
  ELSE IF w.outs[1] = 0
    THEN [exit |-> TRUE, st |-> w.st, carried |-> Tail(w.outs), seen |-> 0]
  ELSE
    LET b == ExecBlock(Back(getBodyRegion(loop)), Tail(w.outs), w.st)
        s == ExecBlock(Back(getStepRegion(loop)), b.outs, b.st)
    IN [exit |-> ~s.st.ok, st |-> s.st, carried |-> s.outs,
        seen |-> Induction(cell, Tail(w.outs), w.st)]

(***************************************************************************)
(* The loop reversal engine.  `tag` names the loop and prefixes the ids of *)
(* the values the engine creates.                                          *)
(***************************************************************************)
NV(tag, s) == Val(tag \o "." \o s)

ConstOp(res, n) == [MkOp("constant", "", <<>>, <<res>>, <<>>) EXCEPT !.imm = n]

BinOp(kind, res, lhs, rhs) == MkOp(kind, "", <<lhs, rhs>>, <<res>>, <<>>)

CmpIOp(pred, res, lhs, rhs) == MkOp("cmpi", pred, <<lhs, rhs>>, <<res>>, <<>>)

LoadOp(res, memref) == MkOp("load", "", <<memref>>, <<res>>, <<>>)

StoreOp(value, memref) == MkOp("store", "", <<value, memref>>, <<>>, <<>>)

SelectOp(res, c, x, y) == MkOp("select", "", <<c, x, y>>, <<res>>, <<>>)

ContinueOp(args) == MkOp("continue", "", args, <<>>, <<>>)

ConditionOp(cond, results) == MkOp("condition", "", <<cond>> \o results, <<>>, <<>>)

RECURSIVE cloneRootSubexpression(_, _, _), cloneOperandSubexpressions(_, _, _)
\* `emitted` is what the builder has inserted so far.  The clone of the root
\* keeps the operands of the operation it is cloned from.
cloneRootSubexpression(emitted, block, root) ==
  LET op == DefiningOp(root, block.ops) IN
  IF op # NoOp
    THEN LET e == cloneOperandSubexpressions(emitted, block, op.operands)
             res == [i \in DOMAIN op.results |->
                       Val(op.results[i].id \o "'" \o ToString(Len(e)))]
         IN [ops |-> Append(e, [op EXCEPT !.results = res]), val |-> res[1]]
    ELSE [ops |-> emitted, val |-> root]

cloneOperandSubexpressions(emitted, block, operands) ==
  IF operands = <<>> THEN emitted
  ELSE cloneOperandSubexpressions(
         cloneRootSubexpression(emitted, block, Head(operands)).ops,
         block, Tail(operands))

\* The test of the predicate when it knows the less-or-equal predicates
\* only.
IsLessOrEqual(pred) == pred \in {"ule", "sle"}

IsInclusive(pred) == pred \in {"ule", "sle", "uge", "sge"}

\* rewriter.replaceOpWithNewOp: newOp takes the place and the uses of old.
ReplaceOp(ops, old, newOp) ==
  [i \in DOMAIN ops |-> IF ops[i] = old THEN newOp ELSE ops[i]]

\* pair0 of cloneReversedLoop: the induction cell and the operation
\* computing the stored value, from the last store of the step block that
\* targets a comparison temporary.
inductionPair(loop, scope, cmpOp) ==
  LET stepOps == Back(getStepRegion(loop)).ops
      temps == populateComparisonTemps(cmpOp, Back(getWhileRegion(loop)), scope)
      hits == { i \in DOMAIN stepOps :
                  /\ stepOps[i].kind = "store"
                  /\ MemRefDef(stepOps[i], scope) \in Range(temps) }
  IN IF hits = {} THEN <<NoOp, NoOp>>
     ELSE LET i == CHOOSE j \in hits : \A k \in hits : k <= j IN
          <<MemRefDef(stepOps[i], scope),
            DefiningOp(stepOps[i].operands[1], scope)>>

\* The induction update turned round with its operands left in the order
\* the original has them.
invertedBumpInTheOriginalOrder(stepOp, res, stepIsAnAddOp, commuteTheAddOp) ==
  BinOp(IF stepIsAnAddOp THEN "subi" ELSE "addi", res,
        stepOp.operands[1], stepOp.operands[2])

\* The induction update turned round: an add becomes a subtract (with its
\* operands commuted when the induction is on the right), a subtract an add.
invertedBump(stepOp, res, stepIsAnAddOp, commuteTheAddOp) ==
  IF stepIsAnAddOp
    THEN BinOp("subi", res, stepOp.operands[IF commuteTheAddOp THEN 2 ELSE 1],
               stepOp.operands[IF commuteTheAddOp THEN 1 ELSE 2])
    ELSE BinOp("addi", res, stepOp.operands[1], stepOp.operands[2])

\* The lambda inductionOnLhs: the right operand of binOp when its left
\* operand is a load of the induction variable, the null value otherwise.
inductionOnLhs(binOp, scope, inductionVar) ==
  IF /\ DefiningOp(binOp.operands[1], scope).kind = "load"
     /\ MemRefDef(DefiningOp(binOp.operands[1], scope), scope) = inductionVar
    THEN binOp.operands[2] ELSE NoVal

\* The lambda oppositeOfInduction.
oppositeOfInduction(binOp, scope, inductionVar) ==
  IF inductionOnLhs(binOp, scope, inductionVar) # NoVal
    THEN inductionOnLhs(binOp, scope, inductionVar)
    ELSE binOp.operands[1]

\* B of `for (i = A; i cmp B; i = i bump C)`.
terminalValue(loop, scope, cmpOp, inductionIsValue, inductionVar) ==
  IF inductionIsValue
    THEN IF cmpOp.operands[1] = Front(getWhileRegion(loop)).args[1]
           THEN cmpOp.operands[2] ELSE cmpOp.operands[1]
    ELSE oppositeOfInduction(cmpOp, scope, inductionVar)

\* C, whether the bump is an add, and whether the add has the induction on
\* its right.
trip0(stepBlock, scope, stepOp, inductionIsValue, inductionVar) ==
  IF inductionIsValue
    THEN IF stepOp.kind = "addi"
           THEN IF stepOp.operands[1] = stepBlock.args[1]
                  THEN <<stepOp.operands[2], TRUE, FALSE>>
                  ELSE <<stepOp.operands[1], TRUE, TRUE>>
           ELSE <<stepOp.operands[2], FALSE, FALSE>>
    ELSE IF stepOp.kind = "addi"
           THEN <<oppositeOfInduction(stepOp, scope, inductionVar), TRUE,
                  stepOp.operands[1]
                    = oppositeOfInduction(stepOp, scope, inductionVar)>>
           ELSE <<inductionOnLhs(stepOp, scope, inductionVar), FALSE, FALSE>>

\* The subexpressions cloneReversedLoop recovers from the loop, and the load
\* of the initial value the builder inserts in the memory case.
recoveredInduction(loop, scope, cmpOp, inductionIsValue, inductionVar, stepOp, trip, tag) ==
  [inductionIsValue |-> inductionIsValue,
   inductionVar |-> inductionVar,
   stepOp |-> stepOp,
   initialValue |-> IF inductionIsValue THEN loop.operands[1]
                    ELSE NV(tag, "init"),
   inserted |-> IF inductionIsValue THEN <<>>
                ELSE <<LoadOp(NV(tag, "init"), inductionVar.results[1])>>,
   terminalValue |->
     terminalValue(loop, scope, cmpOp, inductionIsValue, inductionVar),
   stepValue |-> trip[1],
   stepIsAnAddOp |-> trip[2],
   commuteTheAddOp |-> trip[3],
   pred |-> cmpOp.name]

recoverWithStepOp(loop, scope, cmpOp, inductionIsValue, inductionVar, stepOp, tag) ==
  recoveredInduction(loop, scope, cmpOp, inductionIsValue, inductionVar, stepOp,
                     trip0(Back(getStepRegion(loop)), scope, stepOp,
                           inductionIsValue, inductionVar),
                     tag)

recoverWithPair(loop, scope, cmpOp, inductionIsValue, pair, tag) ==
  recoverWithStepOp(loop, scope, cmpOp, inductionIsValue, pair[1],
                    IF inductionIsValue
                      THEN DefiningOp(
                             Back(Back(getStepRegion(loop)).ops).operands[1],
                             scope)
                      ELSE pair[2],
                    tag)

recoverWithCmpOp(loop, scope, cmpOp, inductionIsValue, tag) ==
  recoverWithPair(loop, scope, cmpOp, inductionIsValue,
                  IF ~inductionIsValue THEN inductionPair(loop, scope, cmpOp)
                  ELSE <<NoOp, NoOp>>,
                  tag)

recoverInduction(loop, scope, tag, inductionIsValue) ==
  recoverWithCmpOp(loop, scope,
                   DefiningOp(Back(Back(getWhileRegion(loop)).ops).operands[1],
                              scope),
                   inductionIsValue, tag)

\* The operations the builder inserts in front of the new loop, from the
\* clones of B and C to the store of the new initial value.
iterationCount(x, term, step, newStepVal, iters1, tag) ==
  step.ops \o <<ConstOp(NV(tag, "zero"), 0)>>
  \o (IF x.stepIsAnAddOp THEN <<>>
      ELSE <<BinOp("subi", newStepVal, NV(tag, "zero"), step.val)>>)
  \o <<BinOp("subi", NV(tag, "iters0"), term.val, x.initialValue)>>
  \o (IF IsInclusive(x.pred)
        THEN <<BinOp("addi", iters1, NV(tag, "iters0"), newStepVal)>>
        ELSE <<>>)
  \o <<BinOp("divsi", NV(tag, "iters2"), iters1, newStepVal),
       CmpIOp("sgt", NV(tag, "noloop"), NV(tag, "iters2"), NV(tag, "zero")),
       SelectOp(NV(tag, "iters"), NV(tag, "noloop"), NV(tag, "iters2"),
                NV(tag, "zero")),
       ConstOp(NV(tag, "one"), 1),
       BinOp("subi", NV(tag, "adjust"), NV(tag, "iters"), NV(tag, "one")),
       BinOp("muli", NV(tag, "nstep"), NV(tag, "adjust"), newStepVal),
       BinOp("addi", NV(tag, "newinit"), x.initialValue, NV(tag, "nstep"))>>
  \o (IF x.inductionIsValue THEN <<>>
      ELSE <<StoreOp(NV(tag, "newinit"), x.inductionVar.results[1])>>)

\* entry.addArgument: the trip counter is the last argument of the entry
\* block of a cloned region.
addArgument(region, trip) == [region EXCEPT ![1].args = Append(@, trip)]

\* The while region when the original test is kept and the trip counter is
\* only passed on.
whileBuilderKeepingTheTest(region, tag) ==
  [region EXCEPT ![Len(region)].ops =
     DropBack(@) \o
     <<ConditionOp(Back(@).operands[1],
                   Tail(Back(@).operands) \o <<Back(Back(region).args)>>)>>]

\* The while region of the new loop: the condition tests the trip counter.
whileBuilder(region, tag) ==
  [region EXCEPT ![Len(region)].ops =
     DropBack(@) \o
     <<CmpIOp("sgt", NV(tag, "cond.w"), Back(Back(region).args),
              NV(tag, "zero.w")),
       ConditionOp(NV(tag, "cond.w"),
                   Tail(Back(@).operands) \o <<Back(Back(region).args)>>)>>]

\* The body region of the new loop: every argument of the entry block is
\* passed through.
bodyBuilder(region) ==
  [region EXCEPT ![Len(region)].ops =
     DropBack(@) \o <<ContinueOp(Front(region).args)>>]

\* The replacement when it is made in the value case as well.
replacedStepRegionInBothCases(region, x) ==
  [region EXCEPT ![Len(region)].ops =
     ReplaceOp(@, x.stepOp,
               invertedBump(x.stepOp, x.stepOp.results[1],
                            x.stepIsAnAddOp, x.commuteTheAddOp))]

\* In the memory case the step operation of the original loop is replaced
\* before the step region is cloned.
replacedStepRegion(region, x) ==
  IF x.inductionIsValue THEN region
  ELSE [region EXCEPT ![Len(region)].ops =
          ReplaceOp(@, x.stepOp,
                    invertedBump(x.stepOp, x.stepOp.results[1],
                                 x.stepIsAnAddOp, x.commuteTheAddOp))]

\* The step region of the new loop: the bump turned round in the value case,
\* and the trip counter decremented.
stepBuilder(region, x, tag) ==
  [region EXCEPT ![Len(region)].ops =
     DropBack(@)
     \o (IF x.inductionIsValue
           THEN <<invertedBump(
                    DefiningOp(Back(Back(region).ops).operands[1],
                               Back(region).ops),
                    NV(tag, "bump"), x.stepIsAnAddOp, x.commuteTheAddOp)>>
           ELSE <<>>)
     \o <<ConstOp(NV(tag, "one.s"), 1),
          BinOp("subi", NV(tag, "dec"), Back(Front(region).args),
                NV(tag, "one.s")),
          ContinueOp((IF x.inductionIsValue THEN <<NV(tag, "bump")>>
                      ELSE <<>>) \o <<NV(tag, "dec")>>)>>]

\* rewriter.create<cc::LoopOp> with the three region builders.
createLoopOp(loop, x, inputs, tag) ==
  MkOp("loop", tag, inputs,
       [i \in DOMAIN inputs |-> NV(tag, "res" \o ToString(i))],
       <<whileBuilder(addArgument(getWhileRegion(loop), NV(tag, "trip.w")), tag),
         bodyBuilder(addArgument(getBodyRegion(loop), NV(tag, "trip.b"))),
         stepBuilder(addArgument(replacedStepRegion(getStepRegion(loop), x),
                                 NV(tag, "trip.s")),
                     x, tag)>>)

\* "Now rewrite the loop to run in reverse."
rewriteInReverse(loop, x, term, step, tag) ==
  [pre |-> iterationCount(x, term, step,
                          IF x.stepIsAnAddOp THEN step.val
                          ELSE NV(tag, "negstep"),
                          IF IsInclusive(x.pred) THEN NV(tag, "iters1")
                          ELSE NV(tag, "iters0"),
                          tag)
           \o <<ConstOp(NV(tag, "zero.w"), 0)>>,
   newLoop |-> createLoopOp(loop, x,
                            IF x.inductionIsValue
                              THEN <<NV(tag, "newinit"), NV(tag, "iters")>>
                              ELSE <<NV(tag, "iters")>>,
                            tag),
   orig |-> [loop EXCEPT !.regions[3] = replacedStepRegion(@, x)]]

rewriteWithTerm(loop, x, term, tag) ==
  rewriteInReverse(loop, x, term,
                   cloneRootSubexpression(term.ops, Back(getStepRegion(loop)),
                                          x.stepValue),
                   tag)

rewriteRecovered(loop, x, tag) ==
  rewriteWithTerm(loop, x,
                  cloneRootSubexpression(x.inserted, Back(getWhileRegion(loop)),
                                         x.terminalValue),
                  tag)

\* The result: the operations the builder inserts in front of the new loop
\* (pre), the new loop (newLoop) and the original loop as the engine leaves
\* it (orig).
cloneReversedLoop(loop, outer, tag) ==
  rewriteRecovered(loop,
                   recoverInduction(loop, LoopScope(loop, outer), tag,
                                    hasMonotonicPHIControl(loop, outer)),
                   tag)

(***************************************************************************)
(* Primitive gates.  operands = parameters \o controls \o targets and      *)
(* seg = the three segment sizes (operand_segment_sizes).                  *)
(***************************************************************************)
Gate(name, attrs, params, controls, targets) ==
  [MkOp("gate", name, params \o controls \o targets, <<>>, <<>>)
     EXCEPT !.attrs = attrs,
            !.seg = <<Len(params), Len(controls), Len(targets)>>]

ReturnOp == MkOp("return", "", <<>>, <<>>, <<>>)

(***************************************************************************)
(* The counted loops `for (i = A; i cmp B; i = i bump C) body` the front   *)
(* end produces, in both encodings.  p.swap puts the induction on the      *)
(* right of the comparison, p.commute on the right of the addition; with   *)
(* p.inside the constants B and C are defined in the while and step        *)
(* blocks, otherwise in front of the loop.                                 *)
(***************************************************************************)
LoopConsts(p, tag, which) ==
  (IF which = "A" THEN <<ConstOp(NV(tag, "A"), p.a)>> ELSE <<>>)
  \o (IF which = "B" THEN <<ConstOp(NV(tag, "B"), p.b)>> ELSE <<>>)
  \o (IF which = "C" THEN <<ConstOp(NV(tag, "C"), p.c)>> ELSE <<>>)

\* The operations in front of the loop.
LoopOuter(p, tag) ==
  LoopConsts(p, tag, "A")
  \o (IF p.inside THEN <<>>
      ELSE LoopConsts(p, tag, "B") \o LoopConsts(p, tag, "C"))
  \o (IF p.domain = "memory"
        THEN <<MkOp("alloca", "i64", <<>>, <<NV(tag, "iter")>>, <<>>),
               StoreOp(NV(tag, "A"), NV(tag, "iter"))>>
        ELSE <<>>)

LoopCmp(p, tag, i) ==
  IF p.swap THEN CmpIOp(p.pred, NV(tag, "cond"), NV(tag, "B"), i)
  ELSE CmpIOp(p.pred, NV(tag, "cond"), i, NV(tag, "B"))

LoopBump(p, tag, i) ==
  IF p.commute THEN BinOp(p.bump, NV(tag, "next"), NV(tag, "C"), i)
  ELSE BinOp(p.bump, NV(tag, "next"), i, NV(tag, "C"))

\* bodyOps are the operations of the body in front of its cc.continue.
CountedLoop(p, tag, bodyOps) ==
  IF p.domain = "value"
    THEN MkOp("loop", tag, <<NV(tag, "A")>>, <<NV(tag, "final")>>,
           << <<MkBlock(<<NV(tag, "w0")>>,
                  (IF p.inside THEN LoopConsts(p, tag, "B") ELSE <<>>)
                  \o <<LoopCmp(p, tag, NV(tag, "w0")),
                       ConditionOp(NV(tag, "cond"), <<NV(tag, "w0")>>)>>)>>,
              <<MkBlock(<<NV(tag, "b0")>>,
                  bodyOps \o <<ContinueOp(<<NV(tag, "b0")>>)>>)>>,
              <<MkBlock(<<NV(tag, "s0")>>,
                  (IF p.inside THEN LoopConsts(p, tag, "C") ELSE <<>>)
                  \o <<LoopBump(p, tag, NV(tag, "s0")),
                       ContinueOp(<<NV(tag, "next")>>)>>)>> >>)
    ELSE MkOp("loop", tag, <<>>, <<>>,
           << <<MkBlock(<<>>,
                  <<LoadOp(NV(tag, "w.ld"), NV(tag, "iter"))>>
                  \o (IF p.inside THEN LoopConsts(p, tag, "B") ELSE <<>>)
                  \o <<LoopCmp(p, tag, NV(tag, "w.ld")),
                       ConditionOp(NV(tag, "cond"), <<>>)>>)>>,
              <<MkBlock(<<>>, bodyOps \o <<ContinueOp(<<>>)>>)>>,
              <<MkBlock(<<>>,
                  <<LoadOp(NV(tag, "s.ld"), NV(tag, "iter"))>>
                  \o (IF p.inside THEN LoopConsts(p, tag, "C") ELSE <<>>)
                  \o <<LoopBump(p, tag, NV(tag, "s.ld")),
                       StoreOp(NV(tag, "next"), NV(tag, "iter")),
                       ContinueOp(<<>>)>>)>> >>)

MaxInit == 1      \* initial values A range over 0..MaxInit
MaxBound == 7    \* bounds B range over 0..MaxBound
MaxStep == 3      \* steps C range over 1..MaxStep

LoopParams ==
  { p \in [domain : {"value", "memory"}, pred : {"slt", "sle", "sgt", "sge"},
           swap : BOOLEAN, bump : {"addi", "subi"}, commute : BOOLEAN,
           inside : BOOLEAN, a : 0..MaxInit, b : 0..MaxBound, c : 1..MaxStep] :
      \* the front end writes i - C, and C + i only for an addition
      p.commute => p.bump = "addi" }

\* for (i = 0; i < 10; i++) and for (i = 0; i <= 10; i += 2)
LoopExamples ==
  { [domain |-> d, pred |-> "slt", swap |-> FALSE, bump |-> "addi",
     commute |-> FALSE, inside |-> FALSE, a |-> 0, b |-> 10, c |-> 1] :
      d \in {"value", "memory"} }
  \cup
  { [domain |-> d, pred |-> "sle", swap |-> FALSE, bump |-> "addi",
     commute |-> FALSE, inside |-> FALSE, a |-> 0, b |-> 10, c |-> 2] :
      d \in {"value", "memory"} }

(***************************************************************************)
(* Specification SpecLoop: a counted loop is run, reversed by the engine,  *)
(* and the reversed loop is run from the same initial machine state.       *)
(***************************************************************************)
IdleLoop == [phase |-> "none"]

IdleRegion == [phase |-> "none"]

LoopStart(p) ==
  LET loop == CountedLoop(p, "L", <<Gate("x", {}, <<>>, <<>>, <<Val("q0")>>)>>)
      outer == LoopOuter(p, "L")
      st == ExecOps(outer, EmptyMachine)
  IN [p |-> p, loop |-> loop, outer |-> outer,
      cell |-> IF p.domain = "memory" THEN NV("L", "iter") ELSE NoVal,
      st |-> st,
      carried |-> [i \in DOMAIN loop.operands |-> st.env[loop.operands[i]]],
      otrace |-> <<>>, ofinal |-> <<>>,
      pre |-> <<>>, newLoop |-> NoOp, orig |-> loop,
      rtrace |-> <<>>, rfinal |-> <<>>, iters |-> 0, start |-> 0,
      recounted |-> FALSE, newLoop2 |-> NoOp, ttrace |-> <<>>, tfinal |-> <<>>]

InitLoop ==
  /\ \E p \in LoopParams \cup LoopExamples : loopSt = LoopStart(p)
  /\ pc = "orig"
  /\ input = <<>> /\ module = <<>> /\ infoMap = << >> /\ walk = 0 /\ gidx = 0
  /\ failed = FALSE /\ errors = <<>> /\ regionSt = IdleRegion

\* One trip of the original loop, or its exit.
RunOriginal ==
  /\ pc = "orig"
  /\ LET t == LoopTrip(loopSt.loop, loopSt.cell, loopSt.carried, loopSt.st) IN
     IF t.exit \/ Len(loopSt.otrace) >= MaxIter
       THEN /\ pc' = "clone"
            /\ loopSt' = [loopSt EXCEPT !.ofinal = t.carried, !.st = t.st]
       ELSE /\ pc' = pc
            /\ loopSt' = [loopSt EXCEPT !.otrace = Append(@, t.seen),
                                        !.st = t.st, !.carried = t.carried]
  /\ UNCHANGED <<input, module, infoMap, walk, gidx, failed, errors, regionSt>>

\* The engine builds the reversed loop; the operations it puts in front of
\* the new loop are run from the machine state the original started in.
CloneReversedLoop ==
  /\ pc = "clone"
  /\ isaCountedLoop(loopSt.loop, loopSt.outer)
  /\ LET r == cloneReversedLoop(loopSt.loop, loopSt.outer, "R")
         st == ExecOps(r.pre, ExecOps(loopSt.outer, EmptyMachine))
         iters == NV("R", "iters")
         start == NV("R", "newinit")
     IN loopSt' = [loopSt EXCEPT
          !.pre = r.pre, !.newLoop = r.newLoop, !.orig = r.orig, !.st = st,
          !.carried = IF Bound(st, r.newLoop.operands)
                        THEN [i \in DOMAIN r.newLoop.operands |->
                                st.env[r.newLoop.operands[i]]]
                        ELSE <<>>,
          !.iters = IF iters \in DOMAIN st.env THEN st.env[iters] ELSE 0 - 1,
          !.start = IF start \in DOMAIN st.env THEN st.env[start] ELSE 0 - 1]
  /\ pc' = "rev"
  /\ UNCHANGED <<input, module, infoMap, walk, gidx, failed, errors, regionSt>>

\* One trip of the reversed loop, or its exit.
RunReversed ==
  /\ pc = "rev"
  /\ LET t == LoopTrip(loopSt.newLoop, loopSt.cell, loopSt.carried, loopSt.st) IN
     IF t.exit \/ Len(loopSt.rtrace) >= MaxIter
       THEN /\ pc' = "ran"
            /\ loopSt' = [loopSt EXCEPT !.rfinal = t.carried, !.st = t.st]
       ELSE /\ pc' = pc
            /\ loopSt' = [loopSt EXCEPT !.rtrace = Append(@, t.seen),
                                        !.st = t.st, !.carried = t.carried]
  /\ UNCHANGED <<input, module, infoMap, walk, gidx, failed, errors, regionSt>>

NextLoop == RunOriginal \/ CloneReversedLoop \/ RunReversed

SpecLoop == InitLoop /\ [][NextLoop]_vars

(***************************************************************************)
(* Specification SpecCarried: the loops of SpecLoop with further           *)
(* loop-carried values next to the induction variable, as the value        *)
(* matcher accepts them.  The further values are passed round the loop     *)
(* unchanged.                                                              *)
(***************************************************************************)
MaxCarried == 2   \* further loop-carried values of a loop

Acc(tag, where, n) == [i \in 1..n |-> NV(tag, "acc" \o ToString(i) \o where)]

\* The block with n further arguments, which its terminator passes on.
CarryingBlock(block, tag, where, n) ==
  [args |-> block.args \o Acc(tag, where, n),
   ops |-> DropBack(block.ops)
           \o <<[Terminator(block) EXCEPT !.operands = @ \o Acc(tag, where, n)]>>]

\* The loop with n further loop-carried values.
WithCarried(loop, tag, n) ==
  [loop EXCEPT
     !.operands = @ \o Acc(tag, ".0", n),
     !.results = @ \o Acc(tag, ".final", n),
     !.regions = <<<<CarryingBlock(@[1][1], tag, ".w", n)>>,
                   <<CarryingBlock(@[2][1], tag, ".b", n)>>,
                   <<CarryingBlock(@[3][1], tag, ".s", n)>>>>]

\* The initial values of the further loop-carried values.
CarriedOuter(tag, n) == [i \in 1..n |-> ConstOp(Acc(tag, ".0", n)[i], i)]

CarriedParams ==
  { p \in LoopParams : p.b <= 3 /\ ~p.inside /\ ~p.swap /\ ~p.commute }

CarriedStart(p, n) ==
  [LoopStart(p) EXCEPT
     !.loop = WithCarried(@, "L", n),
     !.orig = WithCarried(@, "L", n),
     !.outer = @ \o CarriedOuter("L", n),
     !.st = ExecOps(CarriedOuter("L", n), @),
     !.carried = @ \o [i \in 1..n |-> i]]

InitCarried ==
  /\ \E p \in CarriedParams :
       \E n \in 0..(IF p.domain = "value" THEN MaxCarried ELSE 0) :
         loopSt = CarriedStart(p, n)
  /\ pc = "orig"
  /\ input = <<>> /\ module = <<>> /\ infoMap = << >> /\ walk = 0 /\ gidx = 0
  /\ failed = FALSE /\ errors = <<>> /\ regionSt = IdleRegion

SpecCarried == InitCarried /\ [][NextLoop]_vars

(***************************************************************************)
(* Specification SpecHoist: the loops of SpecLoop whose bound and step are *)
(* computed inside the loop, in the while and step blocks, by expressions  *)
(* of a depth up to MaxExpr: a constant, a sum of constants, a sum of a    *)
(* sum.                                                                    *)
(***************************************************************************)
MaxExpr == 3      \* depth of the expressions of the bound and the step

SubValue(v, s) == Val(v.id \o "." \o s)

RECURSIVE Expression(_, _, _)
\* The operations computing the value v = n by an expression of the depth.
Expression(v, n, depth) ==
  IF depth <= 1 THEN <<ConstOp(v, n)>>
  ELSE Expression(SubValue(v, "n"), n, depth - 1)
       \o <<ConstOp(SubValue(v, "z"), 0),
            BinOp("addi", v, SubValue(v, "n"), SubValue(v, "z"))>>

\* The block with the constant defining v replaced by the expression.
WithExpression(block, v, depth) ==
  [block EXCEPT !.ops =
     Flatten([i \in DOMAIN @ |->
                IF @[i].kind = "constant" /\ @[i].results = <<v>>
                  THEN Expression(v, @[i].imm, depth)
                  ELSE <<@[i]>>])]

\* The loop with its bound and its step computed at the two depths.
WithExpressions(loop, tag, depthB, depthC) ==
  [loop EXCEPT
     !.regions[1][1] = WithExpression(@, NV(tag, "B"), depthB),
     !.regions[3][1] = WithExpression(@, NV(tag, "C"), depthC)]

HoistParams ==
  { p \in LoopParams : p.inside /\ p.b <= 3 /\ p.c <= 2 /\ ~p.swap }

HoistStart(p, depthB, depthC) ==
  [LoopStart(p) EXCEPT
     !.loop = WithExpressions(@, "L", depthB, depthC),
     !.orig = WithExpressions(@, "L", depthB, depthC)]

InitHoist ==
  /\ \E p \in HoistParams, depthB \in 1..MaxExpr, depthC \in 1..MaxExpr :
       loopSt = HoistStart(p, depthB, depthC)
  /\ pc = "orig"
  /\ input = <<>> /\ module = <<>> /\ infoMap = << >> /\ walk = 0 /\ gidx = 0
  /\ failed = FALSE /\ errors = <<>> /\ regionSt = IdleRegion

SpecHoist == InitHoist /\ [][NextLoop]_vars

(***************************************************************************)
(* Specification SpecTwice: the reversed loop is asked about by            *)
(* isaCountedLoop and, when it is a counted loop, reversed once more and   *)
(* run where the first reversed loop stood.                                *)
(***************************************************************************)
TwiceParams == { p \in LoopParams : p.b <= 3 /\ ~p.inside }

InitTwice ==
  /\ \E p \in TwiceParams : loopSt = LoopStart(p)
  /\ pc = "orig"
  /\ input = <<>> /\ module = <<>> /\ infoMap = << >> /\ walk = 0 /\ gidx = 0
  /\ failed = FALSE /\ errors = <<>> /\ regionSt = IdleRegion

\* isaCountedLoop is asked about the loop the engine built.
Recertify ==
  /\ pc = "ran"
  /\ loopSt' = [loopSt EXCEPT !.recounted =
                  isaCountedLoop(loopSt.newLoop, loopSt.outer \o loopSt.pre)]
  /\ pc' = "asked"
  /\ UNCHANGED <<input, module, infoMap, walk, gidx, failed, errors, regionSt>>

\* The engine reverses the loop it built; the operations it puts in front
\* are run after those of the first reversal.
CloneReversedLoopAgain ==
  /\ pc = "asked"
  /\ loopSt.recounted
  /\ LET r == cloneReversedLoop(loopSt.newLoop, loopSt.outer \o loopSt.pre, "RR")
         st == ExecOps(loopSt.pre \o r.pre, ExecOps(loopSt.outer, EmptyMachine))
     IN loopSt' = [loopSt EXCEPT
          !.newLoop2 = r.newLoop, !.st = st,
          !.carried = IF Bound(st, r.newLoop.operands)
                        THEN [i \in DOMAIN r.newLoop.operands |->
                                st.env[r.newLoop.operands[i]]]
                        ELSE <<>>]
  /\ pc' = "rev2"
  /\ UNCHANGED <<input, module, infoMap, walk, gidx, failed, errors, regionSt>>

\* One trip of the loop reversed twice, or its exit.
RunReversedTwice ==
  /\ pc = "rev2"
  /\ LET t == LoopTrip(loopSt.newLoop2, loopSt.cell, loopSt.carried, loopSt.st) IN
     IF t.exit \/ Len(loopSt.ttrace) >= MaxIter
       THEN /\ pc' = "ran2"
            /\ loopSt' = [loopSt EXCEPT !.tfinal = t.carried, !.st = t.st]
       ELSE /\ pc' = pc
            /\ loopSt' = [loopSt EXCEPT !.ttrace = Append(@, t.seen),
                                        !.st = t.st, !.carried = t.carried]
  /\ UNCHANGED <<input, module, infoMap, walk, gidx, failed, errors, regionSt>>

NextTwice ==
  \/ RunOriginal \/ CloneReversedLoop \/ RunReversed
  \/ Recertify \/ CloneReversedLoopAgain \/ RunReversedTwice

SpecTwice == InitTwice /\ [][NextTwice]_vars

(***************************************************************************)
(* Functions and the module.  A function has a name, the types of its      *)
(* inputs and results, a visibility and a body region; the arguments of    *)
(* the body's first block are its parameters.  The module is the sequence  *)
(* of its globals.                                                         *)
(***************************************************************************)
NoFunc == [name |-> "", inputs |-> <<>>, results |-> <<>>, private |-> FALSE,
           body |-> <<>>]

\* cudaq::opt::factory::createFunction: a function without a body yet.
createFunction(name, results, inputs) ==
  [name |-> name, inputs |-> inputs, results |-> results, private |-> FALSE,
   body |-> <<>>]

\* ModuleOp::lookupSymbol: the global of that name, NoFunc when there is none.
lookupSymbol(m, name) ==
  IF \E i \in DOMAIN m : m[i].name = name
    THEN m[CHOOSE i \in DOMAIN m : m[i].name = name /\
                  \A j \in DOMAIN m : m[j].name = name => i <= j]
    ELSE NoFunc

\* The function seen as an operation owning its body.
FuncAsOp(f) == MkOp("func", f.name, <<>>, <<>>, <<f.body>>)

getAdjCtrlVariantFunctionName(n) == n \o ".adj.ctrl"

getAdjVariantFunctionName(n) == n \o ".adj"

getCtrlVariantFunctionName(n) == n \o ".ctrl"

\* The traits and characteristics the pass asks for.
QuantumGate(op) == op.kind = "gate"

Hermitian(op) == op.name \in {"h", "x", "y", "z", "swap"}

hasQuantum(op) == hasCharacteristic({"gate"}, op)

hasCallOp(f) == hasCharacteristic({"call"}, FuncAsOp(f))

\* A kernel is never found to hold a callable expression.
noCallableExpression(f) == FALSE

hasCallableExpression(f) ==
  hasCharacteristic({"create_lambda", "instantiate_callable"}, FuncAsOp(f))

hasMeasureOp(f) == hasCharacteristic({"measure"}, FuncAsOp(f))

(***************************************************************************)
(* The control variant.                                                    *)
(***************************************************************************)
newCond == Val("newCond")

\* The walk when the new control is put behind the controls a gate has.
RECURSIVE addControlAtEnd(_)
addControlAtEnd(op) ==
  LET inner == [op EXCEPT !.regions =
                  [r \in DOMAIN op.regions |->
                    [b \in DOMAIN op.regions[r] |->
                      [op.regions[r][b] EXCEPT !.ops =
                        [i \in DOMAIN op.regions[r][b].ops |->
                          addControlAtEnd(op.regions[r][b].ops[i])]]]]]
  IN IF QuantumGate(inner)
       THEN [inner EXCEPT
               !.operands = SubSeq(op.operands, 1, op.seg[1] + op.seg[2])
                            \o <<newCond>>
                            \o SubSeq(op.operands, op.seg[1] + op.seg[2] + 1,
                                      Len(op.operands)),
               !.seg = <<op.seg[1], op.seg[2] + 1, op.seg[3]>>]
       ELSE inner

\* The walk of createControlVariantOf: every operation with the
\* QuantumGate trait, at any depth, is rebuilt with newCond inserted in
\* front of its controls.
RECURSIVE addControl(_)
addControl(op) ==
  LET inner == [op EXCEPT !.regions =
                  [r \in DOMAIN op.regions |->
                    [b \in DOMAIN op.regions[r] |->
                      [op.regions[r][b] EXCEPT !.ops =
                        [i \in DOMAIN op.regions[r][b].ops |->
                          addControl(op.regions[r][b].ops[i])]]]]]
  IN IF QuantumGate(inner)
       THEN [inner EXCEPT
               !.operands = SubSeq(op.operands, 1, op.seg[1]) \o <<newCond>>
                            \o SubSeq(op.operands, op.seg[1] + 1, Len(op.operands)),
               !.seg = <<op.seg[1], op.seg[2] + 1, op.seg[3]>>]
       ELSE inner

\* The function createControlVariantOf adds to the module.
controlVariantOf(funcOp) ==
  LET funcName == getCtrlVariantFunctionName(funcOp.name)
      inTys == <<"qvec">> \o funcOp.inputs
      newFunc == createFunction(funcName, funcOp.results, inTys)
      cloned == funcOp.body
      withArg == [cloned EXCEPT ![1].args = <<newCond>> \o @]
  IN [newFunc EXCEPT !.private = TRUE,
                     !.body = addControl(FuncAsOp([funcOp EXCEPT !.body = withArg])).regions[1]]

\* The control variant when the walk adds the control to the operations of
\* the kernel itself and the new function takes the kernel's body.
createControlVariantInPlace(ps, funcOp) ==
  [ps EXCEPT !.module =
     Append([i \in DOMAIN ps.module |->
               IF ps.module[i].name = funcOp.name
                 THEN [ps.module[i] EXCEPT !.body =
                         addControl(FuncAsOp(funcOp)).regions[1]]
                 ELSE ps.module[i]],
            controlVariantOf(funcOp))]

\* ps is the state the pass works on: the module, the failure flag and the
\* diagnostics.
createControlVariantOf(ps, funcOp) ==
  [ps EXCEPT !.module = Append(@, controlVariantOf(funcOp))]

(***************************************************************************)
(* The adjoint variant.                                                    *)
(***************************************************************************)
\* The positions of the operations to invert, last first.
getOpsToInvertBackwards(block) ==
  Reverse(SelectSeq([i \in DOMAIN block.ops |-> i],
                    LAMBDA i : hasQuantum(block.ops[i])))

\* The positions in the block of the operations to invert.
getOpsToInvert(block) ==
  SelectSeq([i \in DOMAIN block.ops |-> i], LAMBDA i : hasQuantum(block.ops[i]))

\* The result of the arith.negf created for parameter j of the operation
\* the reversal names `tag`.
NegResult(tag, j) == Val(tag \o ".neg" \o ToString(j))

\* The gate inversion when the is_adj flag is toggled whether or not a
\* parameter was negated.
invertGateAlwaysToggling(op, tag) ==
  LET nparams == op.seg[1]
      negs == [j \in 1..nparams |->
                MkOp("negf", "", <<op.operands[j]>>, <<NegResult(tag, j)>>, <<>>)]
      attrs == IF ~Hermitian(op)
                 THEN IF "is_adj" \in op.attrs THEN op.attrs \ {"is_adj"}
                      ELSE op.attrs \cup {"is_adj"}
                 ELSE op.attrs
  IN negs \o <<[op EXCEPT !.attrs = attrs,
                          !.operands = [i \in DOMAIN op.operands |->
                                          IF i <= nparams THEN NegResult(tag, i)
                                          ELSE op.operands[i]]]>>

\* The last branch of reverseTheOpsInTheBlock: the negations of the
\* parameters followed by the clone of the gate.
invertGate(op, tag) ==
  LET nparams == op.seg[1]
      negs == [j \in 1..nparams |->
                MkOp("negf", "", <<op.operands[j]>>, <<NegResult(tag, j)>>, <<>>)]
      opWasNegated == nparams > 0
      \* the mapper holds the last negation made of each parameter value
      mapped(v) == IF \E j \in 1..nparams : op.operands[j] = v
                     THEN NegResult(tag, CHOOSE j \in 1..nparams :
                            op.operands[j] = v /\
                            \A k \in 1..nparams : op.operands[k] = v => k <= j)
                     ELSE v
      attrs == IF ~Hermitian(op) /\ ~opWasNegated
                 THEN IF "is_adj" \in op.attrs THEN op.attrs \ {"is_adj"}
                      ELSE op.attrs \cup {"is_adj"}
                 ELSE op.attrs
  IN negs \o <<[op EXCEPT !.attrs = attrs,
                          !.operands = [i \in DOMAIN op.operands |->
                                          mapped(op.operands[i])]]>>

RECURSIVE reverseTheOpsInTheBlock(_, _, _)
RECURSIVE invertOp(_, _, _)

\* LoopOp::verify (CCOps.cpp): the initial arguments, the results, the
\* arguments of the three regions, the results of the condition and the
\* operands of the step's continue are as many.
verify(loop) ==
  /\ Len(loop.results) = Len(loop.operands)
  /\ Len(Front(getWhileRegion(loop)).args) = Len(loop.operands)
  /\ Terminator(Front(getWhileRegion(loop))).kind = "condition"
  /\ Len(Terminator(Front(getWhileRegion(loop))).operands) - 1 = Len(loop.operands)
  /\ Len(Front(getBodyRegion(loop)).args) = Len(loop.operands)
  /\ getStepRegion(loop) # <<>> =>
       /\ Len(Front(getStepRegion(loop)).args) = Len(loop.operands)
       /\ Terminator(Front(getStepRegion(loop))).kind = "continue"
       /\ Len(Terminator(Front(getStepRegion(loop))).operands) = Len(loop.operands)

\* The lambda `invert` of reverseTheOpsInTheBlock.
invert(reg, scope, tag) ==
  IF reg = <<>> THEN reg
  ELSE [reg EXCEPT ![1] = reverseTheOpsInTheBlock(reg[1], scope, tag)]

\* What one iteration of the loop of reverseTheOpsInTheBlock puts in front
\* of the terminator for the operation op.
invertOp(op, scope, tag) ==
  IF op.kind = "if"
    THEN <<[op EXCEPT !.regions =
              [r \in DOMAIN op.regions |->
                 invert(op.regions[r], scope, tag \o "." \o ToString(r))]]>>
  ELSE IF op.kind = "loop"
    THEN LET r == cloneReversedLoop(op, scope, tag)
             n == Len(r.newLoop.results)
             \* replaceAllUsesWith: the new loop's leading results stand
             \* where the old loop's results stood
             results == [i \in 1..n |->
                          IF i < n /\ i <= Len(op.results) THEN op.results[i]
                          ELSE r.newLoop.results[i]]
         IN r.pre \o <<[r.newLoop EXCEPT
                          !.results = results,
                          !.regions[2] = invert(@, scope \o r.pre, tag \o ".b")]>>
  ELSE IF op.kind = "scope"
    THEN <<[op EXCEPT !.regions[1] = invert(@, scope, tag \o ".s")]>>
  ELSE invertGate(op, tag)

reverseTheOpsInTheBlock(block, outer, tag) ==
  LET ops == block.ops
      term == Terminator(block)
      invertedOps == getOpsToInvert(block)
      n == Len(invertedOps)
      scope == outer \o ops
      kept == SelectSeq([i \in 1..(Len(ops) - 1) |-> i],
                        LAMBDA i : \A k \in 1..n : invertedOps[k] # i)
      emitted == [k \in 1..n |->
                   invertOp(ops[invertedOps[n + 1 - k]], scope,
                            tag \o "." \o ToString(invertedOps[n + 1 - k]))]
  IN [block EXCEPT !.ops = [k \in DOMAIN kept |-> ops[kept[k]]]
                           \o Flatten(emitted) \o <<term>>]

\* emitError without signalPassFailure.
EmitErrorOnly(ps, loc, msg) ==
  [ps EXCEPT !.errors = Append(@, [loc |-> loc, msg |-> msg])]

\* emitError followed by signalPassFailure.
Fail(ps, loc, msg) ==
  [ps EXCEPT !.errors = Append(@, [loc |-> loc, msg |-> msg]), !.failed = TRUE]

createAdjointVariantOf(ps, funcOp, funcName) ==
  IF regionHasUnstructuredControlFlow(funcOp.body, <<>>)
    THEN Fail(ps, funcOp.name,
              "cannot make adjoint of kernel with unstructured control flow")
  ELSE IF hasCallOp(funcOp)
    THEN Fail(ps, funcOp.name, "cannot make adjoint of kernel with calls")
  ELSE IF hasCallableExpression(funcOp)
    THEN Fail(ps, funcOp.name,
              "cannot make adjoint of kernel with callable expressions")
  ELSE IF hasMeasureOp(funcOp)
    THEN Fail(ps, funcOp.name, "cannot make adjoint of kernel with a measurement")
  ELSE
    LET newFunc == createFunction(funcName, funcOp.results, funcOp.inputs)
        body == [funcOp.body EXCEPT
                   ![1] = reverseTheOpsInTheBlock(@, <<>>, "adj")]
    IN [ps EXCEPT !.module =
          Append(@, [newFunc EXCEPT !.private = TRUE, !.body = body])]

\* The adjoint-control variant when the control variant is made anew each
\* time.
createAdjointControlVariantAnew(ps, funcOp) ==
  LET ps1 == createControlVariantOf(ps, funcOp)
  IN createAdjointVariantOf(ps1, Back(ps1.module),
                            getAdjCtrlVariantFunctionName(funcOp.name))

createAdjointControlVariantOf(ps, funcOp) ==
  LET funcName == funcOp.name
      ctrlFuncName == getCtrlVariantFunctionName(funcName)
      found == lookupSymbol(ps.module, ctrlFuncName)
      ps1 == IF found = NoFunc THEN createControlVariantOf(ps, funcOp) ELSE ps
      ctrlFunc == IF found = NoFunc THEN Back(ps1.module) ELSE found
  IN createAdjointVariantOf(ps1, ctrlFunc, getAdjCtrlVariantFunctionName(funcName))

(***************************************************************************)
(* Apply-sites.  operands = controls \o args, seg = their two sizes, name  *)
(* is the callee and imm the source location of the site.                  *)
(***************************************************************************)
ApplyOp(callee, attrs, controls, args, loc) ==
  [MkOp("apply", callee, controls \o args, <<>>, <<>>)
     EXCEPT !.attrs = attrs, !.seg = <<Len(controls), Len(args)>>, !.imm = loc]

getIsAdj(appOp) == "is_adj" \in appOp.attrs

getControls(appOp) == SubSeq(appOp.operands, 1, appOp.seg[1])

getArgs(appOp) == SubSeq(appOp.operands, appOp.seg[1] + 1, Len(appOp.operands))

applyToVariant(appOp) == getIsAdj(appOp) \/ getControls(appOp) # <<>>

\* The name when the controls are looked at before the adjoint flag.
controlsFirstFunctionName(appOp, calleeName) ==
  IF getControls(appOp) # <<>> THEN getCtrlVariantFunctionName(calleeName)
  ELSE IF getIsAdj(appOp) THEN getAdjVariantFunctionName(calleeName)
  ELSE calleeName

getVariantFunctionName(appOp, calleeName) ==
  IF getIsAdj(appOp) /\ getControls(appOp) # <<>>
    THEN getAdjCtrlVariantFunctionName(calleeName)
  ELSE IF getIsAdj(appOp) THEN getAdjVariantFunctionName(calleeName)
  ELSE IF getControls(appOp) # <<>> THEN getCtrlVariantFunctionName(calleeName)
  ELSE calleeName

\* Operation::walk over a sequence of operations: every operation, the
\* nested ones before the one that owns them.
RECURSIVE WalkOps(_)
WalkOps(ops) ==
  IF ops = <<>> THEN <<>>
  ELSE LET op == Head(ops) IN
       Flatten([r \in DOMAIN op.regions |->
                 Flatten([b \in DOMAIN op.regions[r] |->
                           WalkOps(op.regions[r][b].ops)])])
       \o <<op>> \o WalkOps(Tail(ops))

\* Every operation of the module, in walk order.
ModuleOps(m) == WalkOps([i \in DOMAIN m |-> FuncAsOp(m[i])])

ApplyOps(m) == SelectSeq(ModuleOps(m), LAMBDA op : op.kind = "apply")

(***************************************************************************)
(* ApplyOpAnalysis.  `ApplyVariants variant;` is not initialized, so the   *)
(* flags the visited site does not set hold whatever the stack held: any   *)
(* of the values of ApplyVariantsValues.                                   *)
(***************************************************************************)
ApplyVariantsValues ==
  [needsControlVariant : BOOLEAN, needsAdjointVariant : BOOLEAN,
   needsAdjointControlVariant : BOOLEAN]

\* The body of the walk's callback for one apply-site.
performAnalysis(map, appOp, garbage) ==
  IF ~applyToVariant(appOp) THEN map
  ELSE
    LET fnOp == appOp.name
        variant0 == IF fnOp \in DOMAIN map THEN map[fnOp] ELSE garbage
        variant ==
          IF getIsAdj(appOp) /\ getControls(appOp) # <<>>
            THEN [variant0 EXCEPT !.needsAdjointControlVariant = TRUE]
          ELSE IF getIsAdj(appOp)
            THEN [variant0 EXCEPT !.needsAdjointVariant = TRUE]
          ELSE IF getControls(appOp) # <<>>
            THEN [variant0 EXCEPT !.needsControlVariant = TRUE]
          ELSE variant0
    IN \* DenseMap::insert leaves an existing entry alone
       IF fnOp \in DOMAIN map THEN map ELSE (fnOp :> variant) @@ map

(***************************************************************************)
(* Step 2: the apply-sites become calls.                                   *)
(***************************************************************************)
\* The rewrite when the controls are passed one by one in front of the
\* arguments.
matchAndRewriteControlsApart(appOp) ==
  <<[MkOp("call", getVariantFunctionName(appOp, appOp.name),
          getControls(appOp) \o getArgs(appOp), appOp.results, <<>>)
       EXCEPT !.imm = appOp.imm]>>

\* ApplyOpPattern::matchAndRewrite: what replaces the apply-site.
matchAndRewrite(appOp) ==
  LET calleeName == getVariantFunctionName(appOp, appOp.name)
      consOp == MkOp("concat", "", getControls(appOp),
                     <<Val("cons" \o ToString(appOp.imm))>>, <<>>)
      newArgs == (IF getControls(appOp) # <<>> THEN consOp.results ELSE <<>>)
                 \o getArgs(appOp)
  IN (IF getControls(appOp) # <<>> THEN <<consOp>> ELSE <<>>)
     \o <<[MkOp("call", calleeName, newArgs, appOp.results, <<>>)
             EXCEPT !.imm = appOp.imm]>>

\* The dynamic legality of quake.apply.
isLegal(op) == op.kind # "apply" \/ "replaced" \in op.attrs

\* applyPartialConversion over a sequence of operations.
RECURSIVE convertOps(_)
convertOps(ops) ==
  Flatten([i \in DOMAIN ops |->
    IF ~isLegal(ops[i]) THEN matchAndRewrite(ops[i])
    ELSE <<[ops[i] EXCEPT !.regions =
              [r \in DOMAIN ops[i].regions |->
                [b \in DOMAIN ops[i].regions[r] |->
                  [ops[i].regions[r][b] EXCEPT !.ops = convertOps(@)]]]]>>])

step2(ps) ==
  LET converted == [i \in DOMAIN ps.module |->
                      [ps.module[i] EXCEPT !.body =
                         convertOps(<<FuncAsOp(ps.module[i])>>)[1].regions[1]]]
      ps1 == [ps EXCEPT !.module = converted]
  IN IF \E i \in DOMAIN ModuleOps(converted) : ~isLegal(ModuleOps(converted)[i])
       THEN \* a failed conversion is rolled back
            Fail(ps, "module", "could not rewrite all apply ops.")
       ELSE ps1

(***************************************************************************)
(* The kernels the specifications start from.  A kernel takes two angles   *)
(* and two qubits.                                                         *)
(***************************************************************************)
theta == Val("theta")

phi == Val("phi")

q0 == Val("q0")

q1 == Val("q1")

KernelInputs == <<"f64", "f64", "ref", "ref">>

KernelArgs == <<theta, phi, q0, q1>>

Kernel(name, ops) ==
  [name |-> name, inputs |-> KernelInputs, results |-> <<>>, private |-> FALSE,
   body |-> <<MkBlock(KernelArgs, ops \o <<ReturnOp>>)>>]

H == Gate("h", {}, <<>>, <<>>, <<q0>>)

CX == Gate("x", {}, <<>>, <<q0>>, <<q1>>)

T == Gate("t", {}, <<>>, <<>>, <<q0>>)

Sdg == Gate("s", {"is_adj"}, <<>>, <<>>, <<q1>>)

RY == Gate("ry", {}, <<theta>>, <<>>, <<q1>>)

CRZdg == Gate("rz", {"is_adj"}, <<phi>>, <<q1>>, <<q0>>)

GateForms == {H, CX, T, Sdg, RY, CRZdg}

\* The bodies made of primitive gates only.
GateBodies == UNION { [1..n -> GateForms] : n \in 0..MaxGates }

IfOp(cond, thenOps, elseRegion) ==
  MkOp("if", "", <<cond>>, <<>>,
       << <<MkBlock(<<>>, thenOps \o <<ContinueOp(<<>>)>>)>>, elseRegion >>)

ScopeOp(ops) ==
  MkOp("scope", "", <<>>, <<>>, << <<MkBlock(<<>>, ops \o <<ContinueOp(<<>>)>>)>> >>)

MeasureOp == MkOp("measure", "mz", <<q0>>, <<Val("bit")>>, <<>>)

CallOp == MkOp("call", "g", <<q1>>, <<>>, <<>>)

\* for (i = 0; i < 3; i++) in the memory and in the value encoding
ThreeTrips(domain) ==
  [domain |-> domain, pred |-> "slt", swap |-> FALSE, bump |-> "addi",
   commute |-> FALSE, inside |-> FALSE, a |-> 0, b |-> 3, c |-> 1]

\* while (c) body: a cc.loop without a step region
WhileLoop(bodyOps) ==
  MkOp("loop", "W", <<>>, <<>>,
       << <<MkBlock(<<>>, <<ConstOp(Val("W.c"), 1),
                            ConditionOp(Val("W.c"), <<>>)>>)>>,
          <<MkBlock(<<>>, bodyOps \o <<ContinueOp(<<>>)>>)>>,
          <<>> >>)

\* The bodies with nested regions and classical operations the adjoint
\* accepts.
StructuredBodies ==
  { <<ConstOp(Val("c"), 1), H, BinOp("addi", Val("d"), Val("c"), Val("c")), RY, T>>,
    <<ConstOp(Val("c"), 1), IfOp(Val("c"), <<T, RY>>, <<MkBlock(<<>>, <<H, Sdg, ContinueOp(<<>>)>>)>>), CX>>,
    <<ConstOp(Val("c"), 1), IfOp(Val("c"), <<T, CX>>, <<>>)>>,
    <<ScopeOp(<<ConstOp(Val("c"), 1), T, H>>), RY>>,
    <<ScopeOp(<<ConstOp(Val("c"), 1), IfOp(Val("c"), <<T, CRZdg>>, <<>>)>>)>>,
    LoopOuter(ThreeTrips("memory"), "L")
      \o <<CountedLoop(ThreeTrips("memory"), "L", <<T, RY>>), H>>,
    LoopOuter(ThreeTrips("value"), "L")
      \o <<T, CountedLoop(ThreeTrips("value"), "L", <<Sdg, ScopeOp(<<T, H>>)>>)>> }

\* The bodies the adjoint refuses: their first blocks.
RefusedBodies ==
  { <<H, CallOp>>,
    <<MkOp("create_lambda", "", <<>>, <<Val("f")>>,
           << <<MkBlock(<<>>, <<T, ReturnOp>>)>> >>), H>>,
    <<T, MkOp("instantiate_callable", "g", <<>>, <<Val("f")>>, <<>>)>>,
    <<H, MeasureOp>>,
    <<ScopeOp(<<T, MeasureOp>>)>>,
    <<WhileLoop(<<T>>), H>>,
    <<CallOp, MeasureOp>>,
    <<WhileLoop(<<CallOp>>)>>,
    <<IfOp(theta, <<MkOp("instantiate_callable", "g", <<>>, <<Val("f")>>, <<>>),
                    MeasureOp>>, <<>>)>> }

\* A kernel of two blocks: unstructured control flow.
TwoBlockKernel(name) ==
  [Kernel(name, <<H>>) EXCEPT
     !.body = <<MkBlock(KernelArgs, <<H, MkOp("br", "", <<>>, <<>>, <<>>)>>),
                MkBlock(<<>>, <<T, ReturnOp>>)>>]

VariantKernels ==
  { Kernel("k", ops) : ops \in GateBodies \cup StructuredBodies \cup RefusedBodies }
  \cup {TwoBlockKernel("k")}

\* The flags of a kernel some apply-site targets: at least one is set.
FlaggedVariants ==
  { v \in ApplyVariantsValues :
      v.needsControlVariant \/ v.needsAdjointVariant \/ v.needsAdjointControlVariant }

(***************************************************************************)
(* The pass: runOnOperation is the analysis, step1 and step2.              *)
(***************************************************************************)
PassState == [module |-> module, failed |-> failed, errors |-> errors]

SetPassState(ps) ==
  /\ module' = ps.module
  /\ failed' = ps.failed
  /\ errors' = ps.errors

\* The walk of the analysis reaches its next apply-site.
PerformAnalysis ==
  /\ pc = "analysis"
  /\ walk < Len(ApplyOps(module))
  /\ \E garbage \in ApplyVariantsValues :
       infoMap' = performAnalysis(infoMap, ApplyOps(module)[walk + 1], garbage)
  /\ walk' = walk + 1
  /\ pc' = IF walk + 1 = Len(ApplyOps(module)) THEN "step1" ELSE "analysis"
  /\ UNCHANGED <<input, module, gidx, failed, errors, loopSt, regionSt>>

\* step1, a global the analysis did not flag: continue.
Step1Skip ==
  /\ pc = "step1"
  /\ gidx <= Len(module)
  /\ module[gidx].name \notin DOMAIN infoMap
  /\ gidx' = gidx + 1
  /\ UNCHANGED <<input, module, infoMap, walk, failed, errors, pc, loopSt, regionSt>>

\* step1, a flagged global: the control variant if it is needed.
Step1Control ==
  /\ pc = "step1"
  /\ gidx <= Len(module)
  /\ module[gidx].name \in DOMAIN infoMap
  /\ SetPassState(IF infoMap[module[gidx].name].needsControlVariant
                    THEN createControlVariantOf(PassState, module[gidx])
                    ELSE PassState)
  /\ pc' = "step1.adj"
  /\ UNCHANGED <<input, infoMap, walk, gidx, loopSt, regionSt>>

\* step1, the same global: the adjoint variant if it is needed.
Step1Adjoint ==
  /\ pc = "step1.adj"
  /\ SetPassState(IF infoMap[module[gidx].name].needsAdjointVariant
                    THEN createAdjointVariantOf(PassState, module[gidx],
                           getAdjVariantFunctionName(module[gidx].name))
                    ELSE PassState)
  /\ pc' = "step1.adjctrl"
  /\ UNCHANGED <<input, infoMap, walk, gidx, loopSt, regionSt>>

\* step1, the same global: the adjoint-control variant if it is needed,
\* and on to the next global.
Step1AdjointControl ==
  /\ pc = "step1.adjctrl"
  /\ SetPassState(IF infoMap[module[gidx].name].needsAdjointControlVariant
                    THEN createAdjointControlVariantOf(PassState, module[gidx])
                    ELSE PassState)
  /\ pc' = "step1"
  /\ gidx' = gidx + 1
  /\ UNCHANGED <<input, infoMap, walk, loopSt, regionSt>>

\* step1 has looked at every global: step2 runs and the pass returns.
Step2 ==
  /\ pc = "step1"
  /\ gidx > Len(module)
  /\ SetPassState(step2(PassState))
  /\ pc' = "done"
  /\ UNCHANGED <<input, infoMap, walk, gidx, loopSt, regionSt>>

(***************************************************************************)
(* Specification SpecVariant: step1 and step2 on a module of one kernel    *)
(* the analysis has flagged.                                               *)
(***************************************************************************)
InitVariant ==
  /\ \E k \in VariantKernels : input = <<k>>
  /\ module = input
  /\ \E v \in FlaggedVariants : infoMap = ("k" :> v)
  /\ walk = 0 /\ gidx = 1 /\ failed = FALSE /\ errors = <<>>
  /\ pc = "step1"
  /\ loopSt = IdleLoop /\ regionSt = IdleRegion

NextVariant ==
  Step1Skip \/ Step1Control \/ Step1Adjoint \/ Step1AdjointControl \/ Step2

SpecVariant == InitVariant /\ [][NextVariant]_vars

(***************************************************************************)
(* Execution of a kernel: the integer machine with a record of the gates   *)
(* applied so far.  A gate is recorded with the values of its parameters   *)
(* and the qubits it acts on; an if runs the branch its condition selects, *)
(* a scope its region, and a loop its while, body and step regions until   *)
(* the while region says stop.                                             *)
(***************************************************************************)
\* The qubit q[i] of the kernel's register.
ExtractRefOp(res, i) == MkOp("extract_ref", "", <<i>>, <<res>>, <<>>)

KernelMachine ==
  [env |-> (theta :> 1) @@ (phi :> 2) @@ (q0 :> 100) @@ (q1 :> 101),
   mem |-> << >>, ok |-> TRUE, gates |-> <<>>]

\* The gate as it is applied in the machine state st.
Applied(op, st) ==
  [name |-> op.name, adj |-> "is_adj" \in op.attrs,
   params |-> [i \in 1..op.seg[1] |-> st.env[op.operands[i]]],
   qubits |-> [i \in 1..(Len(op.operands) - op.seg[1]) |->
                 st.env[op.operands[op.seg[1] + i]]]]

BindAll(st, vs, xs) ==
  [st EXCEPT !.env = [v \in {vs[i] : i \in DOMAIN vs \cap DOMAIN xs} |->
                        xs[CHOOSE i \in DOMAIN vs \cap DOMAIN xs : vs[i] = v]]
                     @@ @]

ValuesOf(st, vs) == [i \in DOMAIN vs |-> st.env[vs[i]]]

RECURSIVE RunOp(_, _, _)
RECURSIVE RunOps(_, _, _)
RECURSIVE RunLoop(_, _, _, _)

RunRegion(region, st, fuel) ==
  IF region = <<>> THEN st ELSE RunOps(DropBack(region[1].ops), st, fuel)

\* The body of a loop and then its step region; round the loop again.
RunBodyAndStep(loop, argvals, st, fuel) ==
  LET body == Back(getBodyRegion(loop))
      b == RunOps(DropBack(body.ops), BindAll(st, body.args, argvals), fuel)
  IN IF ~b.ok \/ ~Bound(b, Terminator(body).operands)
          \/ Len(body.args) # Len(argvals)
       THEN Stuck(b)
     ELSE LET s == ExecBlock(Back(getStepRegion(loop)),
                             ValuesOf(b, Terminator(body).operands), b)
          IN IF s.st.ok THEN RunLoop(loop, s.outs, s.st, fuel - 1) ELSE s.st

RunLoop(loop, carried, st, fuel) ==
  IF fuel = 0 THEN Stuck(st)
  ELSE LET w == ExecBlock(Back(getWhileRegion(loop)), carried, st) IN
       IF ~w.st.ok \/ w.outs = <<>> THEN Stuck(w.st)
       ELSE IF w.outs[1] = 0 THEN BindAll(w.st, loop.results, Tail(w.outs))
       ELSE RunBodyAndStep(loop, Tail(w.outs), w.st, fuel)

RunOp(op, st, fuel) ==
  IF ~st.ok THEN st
  ELSE IF op.kind \in {"gate", "negf", "extract_ref", "if", "loop"}
            /\ ~Bound(st, op.operands)
    THEN Stuck(st)
  ELSE IF op.kind = "gate" THEN [st EXCEPT !.gates = Append(@, Applied(op, st))]
  ELSE IF op.kind = "negf"
    THEN Bind(st, op.results[1], 0 - st.env[op.operands[1]])
  ELSE IF op.kind = "extract_ref"
    THEN Bind(st, op.results[1], st.env[op.operands[1]])
  ELSE IF op.kind = "if"
    THEN RunRegion(IF st.env[op.operands[1]] # 0 THEN op.regions[1]
                   ELSE op.regions[2], st, fuel)
  ELSE IF op.kind = "scope" THEN RunRegion(op.regions[1], st, fuel)
  ELSE IF op.kind = "loop"
    THEN RunLoop(op, ValuesOf(st, op.operands), st, fuel)
  ELSE ExecOp(op, st)

RunOps(ops, st, fuel) ==
  IF ops = <<>> THEN st
  ELSE RunOps(Tail(ops), RunOp(Head(ops), st, fuel), fuel)

\* The machine at the return of the kernel.
RunKernel(funcOp) == RunRegion(funcOp.body, KernelMachine, MaxIter)

(***************************************************************************)
(* Specification SpecReverse: the adjoint variant of a kernel with ifs,    *)
(* scopes and counted loops is made, and the kernel and its adjoint are    *)
(* run.  The loops apply a gate to the qubit the induction variable        *)
(* selects, and the ifs are taken or not.                                  *)
(***************************************************************************)
ReverseParams ==
  { p \in LoopParams :
      /\ p.pred \in {"slt", "sle"} /\ p.bump = "addi"
      /\ ~p.swap /\ ~p.commute /\ ~p.inside
      /\ p.b <= 3 /\ p.c <= 2 }

\* t q[i], in front of the cc.continue of the loop the tag names
OnInduction(p, tag) ==
  IF p.domain = "value"
    THEN <<ExtractRefOp(NV(tag, "q"), NV(tag, "b0")),
           Gate("t", {}, <<>>, <<>>, <<NV(tag, "q")>>)>>
    ELSE <<LoadOp(NV(tag, "b.ld"), NV(tag, "iter")),
           ExtractRefOp(NV(tag, "q"), NV(tag, "b.ld")),
           Gate("t", {}, <<>>, <<>>, <<NV(tag, "q")>>)>>

\* for (j = 0; j < 2; j++) in the encoding of p
TwoTrips(p) == [ThreeTrips(p.domain) EXCEPT !.b = 2]

ReverseShapes == {"loop", "ifloop", "scopeloop", "loopif", "looploop"}

ReverseBody(p, shape, taken) ==
  <<ConstOp(Val("c"), taken)>> \o LoopOuter(p, "L") \o
  CASE shape = "loop" ->
         <<H, CountedLoop(p, "L", OnInduction(p, "L") \o <<RY>>), Sdg>>
    [] shape = "ifloop" ->
         <<T, IfOp(Val("c"),
                   <<CountedLoop(p, "L", OnInduction(p, "L")), CX>>,
                   <<MkBlock(<<>>, <<H, Sdg, ContinueOp(<<>>)>>)>>), RY>>
    [] shape = "scopeloop" ->
         <<ScopeOp(<<T, CountedLoop(p, "L", <<H>> \o OnInduction(p, "L")), H>>),
           CRZdg>>
    [] shape = "loopif" ->
         <<CountedLoop(p, "L",
             OnInduction(p, "L")
             \o <<IfOp(Val("c"), <<T, RY>>, <<>>), ScopeOp(<<H, Sdg>>)>>), CX>>
    [] OTHER ->
         <<CountedLoop(p, "L",
             OnInduction(p, "L") \o LoopOuter(TwoTrips(p), "M")
             \o <<CountedLoop(TwoTrips(p), "M",
                    OnInduction(TwoTrips(p), "M") \o <<RY>>)>>), T>>

InitReverse ==
  /\ \E p \in ReverseParams, shape \in ReverseShapes, taken \in {0, 1} :
       /\ input = <<Kernel("k", ReverseBody(p, shape, taken))>>
       /\ loopSt = [phase |-> "none", p |-> p, shape |-> shape, taken |-> taken]
  /\ module = input
  /\ infoMap = << >>
  /\ walk = 0 /\ gidx = 1 /\ failed = FALSE /\ errors = <<>>
  /\ pc = "adjoint"
  /\ regionSt = IdleRegion

\* step1 makes the adjoint variant of the kernel.
CreateAdjointVariant ==
  /\ pc = "adjoint"
  /\ SetPassState(createAdjointVariantOf(PassState, module[1],
                    getAdjVariantFunctionName(module[1].name)))
  /\ pc' = "made"
  /\ UNCHANGED <<input, infoMap, walk, gidx, loopSt, regionSt>>

\* The kernel is run.
RunTheKernel ==
  /\ pc = "made"
  /\ ~failed
  /\ loopSt' = [loopSt EXCEPT !.phase = "kernel"] @@ [original |-> RunKernel(module[1])]
  /\ pc' = "kernel"
  /\ UNCHANGED <<input, module, infoMap, walk, gidx, failed, errors, regionSt>>

\* The adjoint variant is run.
RunTheAdjoint ==
  /\ pc = "kernel"
  /\ loopSt' = [loopSt EXCEPT !.phase = "both"] @@ [adjoint |-> RunKernel(module[2])]
  /\ pc' = "both"
  /\ UNCHANGED <<input, module, infoMap, walk, gidx, failed, errors, regionSt>>

NextReverse == CreateAdjointVariant \/ RunTheKernel \/ RunTheAdjoint

SpecReverse == InitReverse /\ [][NextReverse]_vars

(***************************************************************************)
(* Specification SpecPass: the whole pass on a module of two kernels and   *)
(* an entry point whose apply-sites target them.                           *)
(***************************************************************************)
ApplySites ==
  { ApplyOp(callee, attrs, controls, KernelArgs, 0) :
      callee \in {"k1", "k2"}, attrs \in SUBSET {"is_adj", "replaced"},
      controls \in { [i \in 1..n |-> Val("c" \o ToString(i))] : n \in 0..MaxControls } }

\* The sites of the entry point, each with its place as its location.
EntryPoint(sites) ==
  [Kernel("ep", [i \in DOMAIN sites |-> [sites[i] EXCEPT !.imm = i]])
     EXCEPT !.inputs = <<>>, !.body[1].args = <<>>]

PassModules ==
  { <<Kernel("k1", ops), Kernel("k2", <<T, CX>>), EntryPoint(sites)>> :
      ops \in {<<H, RY>>, <<H, MeasureOp>>},
      sites \in UNION { [1..n -> ApplySites] : n \in 0..MaxApplies } }

InitPass ==
  /\ input \in PassModules
  /\ module = input
  /\ infoMap = << >>
  /\ walk = 0 /\ gidx = 1 /\ failed = FALSE /\ errors = <<>>
  /\ pc = IF ApplyOps(input) = <<>> THEN "step1" ELSE "analysis"
  /\ loopSt = IdleLoop /\ regionSt = IdleRegion

NextPass ==
  \/ PerformAnalysis
  \/ Step1Skip \/ Step1Control \/ Step1Adjoint \/ Step1AdjointControl
  \/ Step2

SpecPass == InitPass /\ [][NextPass]_vars

(***************************************************************************)
(* Specification SpecClassify: the classifier is asked about a region.     *)
(* The regions are built to a nesting depth of MaxDepth from gates,        *)
(* cc.if, cc.scope, counted loops in both encodings, while and do-while    *)
(* loops and an operation of two regions that is none of these.            *)
(***************************************************************************)
MaxDepth == 2     \* nesting depth of the regions the classifier is given

Blk(ops) == MkBlock(<<>>, ops \o <<ContinueOp(<<>>)>>)

OneGateRegion == <<Blk(<<H>>)>>

\* A loop of the given encoding around the body region.
LoopAround(domain, attrs, body) ==
  [CountedLoop(ThreeTrips(domain), "L", <<>>)
     EXCEPT !.attrs = attrs,
            !.regions[2] =
              IF domain = "value"
                THEN \* the first block carries the induction, as verify() asks
                     [body EXCEPT ![1].args = <<NV("L", "b0")>>,
                                  ![1].ops = DropBack(@)
                                             \o <<ContinueOp(<<NV("L", "b0")>>)>>]
                ELSE body]

RECURSIVE RegionsOfDepth(_)
\* The regions a loop can have as its body: a loop region has a block.
BodiesOfDepth(d) == RegionsOfDepth(d) \ {<<>>}

\* The runs of operations a block is built from: one operation, with the
\* operations in front of it that it needs.
ItemsOfDepth(d) ==
  IF d = 0 THEN {<<H>>}
  ELSE
    {<<H>>}
    \cup { <<MkOp("if", "", <<theta>>, <<>>, <<r, e>>)>> :
             r \in RegionsOfDepth(d - 1), e \in {<<>>, OneGateRegion} }
    \cup { <<MkOp("scope", "", <<>>, <<>>, <<r>>)>> : r \in RegionsOfDepth(d - 1) }
    \cup { LoopOuter(ThreeTrips("value"), "L")
             \o <<LoopAround("value", {}, r)>> : r \in BodiesOfDepth(d - 1) }
    \cup { LoopOuter(ThreeTrips("memory"), "L")
             \o <<LoopAround("memory", {}, r)>> : r \in BodiesOfDepth(d - 1) }
    \cup { LoopOuter(ThreeTrips("value"), "L")
             \o <<LoopAround("value", {"post_cond"}, r)>> :
             r \in BodiesOfDepth(d - 1) }
    \cup { <<[WhileLoop(<<>>) EXCEPT !.regions[2] = r]>> :
             r \in BodiesOfDepth(d - 1) }
    \cup { <<MkOp("multi", "", <<>>, <<>>, <<r, e>>)>> :
             r \in RegionsOfDepth(d - 1), e \in {<<>>, OneGateRegion} }

RegionsOfDepth(d) ==
  {<<>>}
  \cup { <<Blk(item)>> : item \in ItemsOfDepth(d) }
  \cup { <<Blk(item), Blk(<<H>>)>> : item \in ItemsOfDepth(d) }

ClassifiedRegions ==
  RegionsOfDepth(MaxDepth)
  \cup { <<Blk(first \o second)>> : first, second \in ItemsOfDepth(1) }

InitClassify ==
  /\ \E r \in ClassifiedRegions :
       regionSt = [phase |-> "asked", region |-> r, unstructured |-> FALSE]
  /\ pc = "classify"
  /\ input = <<>> /\ module = <<>> /\ infoMap = << >> /\ walk = 0 /\ gidx = 0
  /\ failed = FALSE /\ errors = <<>> /\ loopSt = IdleLoop

Classify ==
  /\ pc = "classify"
  /\ regionSt' = [regionSt EXCEPT
       !.phase = "answered",
       !.unstructured = regionHasUnstructuredControlFlow(regionSt.region, <<>>)]
  /\ pc' = "classified"
  /\ UNCHANGED <<input, module, infoMap, walk, gidx, failed, errors, loopSt>>

NextClassify == Classify

SpecClassify == InitClassify /\ [][NextClassify]_vars

(***************************************************************************)
(* Specification SpecMatch: isaCountedLoop and the two matchers asked      *)
(* about one operation.  The operations are the counted loops of the two   *)
(* encodings and what becomes of them when one part of the form is edited. *)
(***************************************************************************)
MatchShapes ==
  {"for", "dowhile", "while", "twoblocks", "break", "notloop",
   "condfwd", "cmpother", "bodyother", "stepmul", "stepnoarg", "hybrid",
   "nostore", "twostores", "doubleload", "othercell"}

MatchParams ==
  { p \in LoopParams : p.a = 0 /\ p.b = 3 /\ p.c = 1 /\ p.pred \in {"slt", "sge"} }

\* The operations in front of the operation asked about: those of the loop
\* and a second scalar cell.
MatchOuter(p) ==
  LoopOuter(p, "L")
  \o <<MkOp("alloca", "i64", <<>>, <<NV("L", "cell")>>, <<>>),
       StoreOp(NV("L", "A"), NV("L", "cell"))>>

\* The block `block` with its terminator replaced.
WithTerminator(block, term) == [block EXCEPT !.ops = DropBack(@) \o <<term>>]

\* The block `block` with the operation in front of its last k operations
\* replaced by the operations `by`.
WithOpBefore(block, k, by) ==
  [block EXCEPT !.ops =
     SubSeq(@, 1, Len(@) - k - 1) \o by \o SubSeq(@, Len(@) - k + 1, Len(@))]

\* Edits of a loop of either encoding.
ShapedAnyLoop(loop, shape) ==
  CASE shape = "dowhile" -> [loop EXCEPT !.attrs = {"post_cond"}]
    [] shape = "while" -> [loop EXCEPT !.regions[3] = <<>>]
    [] shape = "twoblocks" ->
         [loop EXCEPT !.regions[2] =
            <<MkBlock(@[1].args, <<MkOp("br", "", <<>>, <<>>, <<>>)>>)>> \o @]
    [] shape = "break" ->
         [loop EXCEPT !.regions[2][1] =
            WithTerminator(@, MkOp("break", "", Back(@.ops).operands, <<>>, <<>>))]
    [] shape = "notloop" -> ScopeOp(<<loop>>)
    [] OTHER -> loop

\* Edits of the value form.
ShapedValueLoop(loop, shape) ==
  CASE shape = "condfwd" ->
         [loop EXCEPT !.regions[1][1] =
            WithTerminator(@, ConditionOp(NV("L", "cond"), <<NV("L", "A")>>))]
    [] shape = "cmpother" ->
         [loop EXCEPT !.regions[1][1] =
            WithOpBefore(@, 1, <<CmpIOp("slt", NV("L", "cond"), NV("L", "A"),
                                        NV("L", "A"))>>)]
    [] shape = "bodyother" ->
         [loop EXCEPT !.regions[2][1] =
            WithTerminator(@, ContinueOp(<<NV("L", "A")>>))]
    [] shape = "stepmul" ->
         [loop EXCEPT !.regions[3][1] =
            WithOpBefore(@, 1, <<BinOp("muli", NV("L", "next"), NV("L", "s0"),
                                       NV("L", "A"))>>)]
    [] shape = "stepnoarg" ->
         [loop EXCEPT !.regions[3][1] =
            WithOpBefore(@, 1, <<BinOp("addi", NV("L", "next"), NV("L", "A"),
                                       NV("L", "A"))>>)]
    [] shape = "hybrid" ->
         \* the loop also keeps a cell that it compares and bumps
         [loop EXCEPT
            !.regions[1][1] =
              WithOpBefore(@, 1,
                <<LoadOp(NV("L", "w.ld"), NV("L", "cell")),
                  CmpIOp("slt", NV("L", "cond"), NV("L", "w0"), NV("L", "w.ld"))>>),
            !.regions[3][1].ops =
              <<LoadOp(NV("L", "s.ld"), NV("L", "cell")),
                BinOp("addi", NV("L", "bumped"), NV("L", "s.ld"), NV("L", "A")),
                StoreOp(NV("L", "bumped"), NV("L", "cell"))>> \o @]
    [] OTHER -> ShapedAnyLoop(loop, shape)

\* Edits of the memory form.
ShapedMemoryLoop(loop, shape) ==
  CASE shape = "nostore" ->
         [loop EXCEPT !.regions[3][1] = WithOpBefore(@, 1, <<>>)]
    [] shape = "twostores" ->
         [loop EXCEPT !.regions[3][1] =
            WithOpBefore(@, 1, <<StoreOp(NV("L", "next"), NV("L", "iter")),
                                 StoreOp(NV("L", "next"), NV("L", "iter"))>>)]
    [] shape = "doubleload" ->
         [loop EXCEPT !.regions[3][1] =
            WithOpBefore(@, 2, <<BinOp("addi", NV("L", "next"), NV("L", "s.ld"),
                                       NV("L", "s.ld"))>>)]
    [] shape = "othercell" ->
         [loop EXCEPT !.regions[3][1] =
            WithOpBefore(@, 1, <<StoreOp(NV("L", "next"), NV("L", "cell"))>>)]
    [] OTHER -> ShapedAnyLoop(loop, shape)

ShapedLoop(p, shape) ==
  IF p.domain = "value"
    THEN ShapedValueLoop(CountedLoop(p, "L", <<T>>), shape)
    ELSE ShapedMemoryLoop(CountedLoop(p, "L", <<T>>), shape)

\* The edits that apply to the encoding of p.
ShapesOf(p) ==
  IF p.domain = "value"
    THEN MatchShapes \ {"nostore", "twostores", "doubleload", "othercell"}
    ELSE MatchShapes \ {"condfwd", "cmpother", "bodyother", "stepmul",
                         "stepnoarg", "hybrid"}

InitMatch ==
  /\ \E p \in MatchParams : \E shape \in ShapesOf(p) :
       loopSt = [phase |-> "asked", p |-> p, shape |-> shape,
                 op |-> ShapedLoop(p, shape), outer |-> MatchOuter(p),
                 counted |-> FALSE, phi |-> FALSE, lcv |-> FALSE]
  /\ pc = "match"
  /\ input = <<>> /\ module = <<>> /\ infoMap = << >> /\ walk = 0 /\ gidx = 0
  /\ failed = FALSE /\ errors = <<>> /\ regionSt = IdleRegion

\* isaCountedLoop is asked about the operation.
AskCounted ==
  /\ pc = "match"
  /\ loopSt' = [loopSt EXCEPT !.phase = "counted",
                  !.counted = isaCountedLoop(loopSt.op, loopSt.outer)]
  /\ pc' = "matchers"
  /\ UNCHANGED <<input, module, infoMap, walk, gidx, failed, errors, regionSt>>

\* The two matchers are asked about a loop with its three regions.
AskMatchers ==
  /\ pc = "matchers"
  /\ loopSt.op.kind = "loop"
  /\ hasStep(loopSt.op)
  /\ loopSt' = [loopSt EXCEPT !.phase = "matched",
                  !.phi = hasMonotonicPHIControl(loopSt.op, loopSt.outer),
                  !.lcv = hasMonotonicLCV(loopSt.op, loopSt.outer)]
  /\ pc' = "matched"
  /\ UNCHANGED <<input, module, infoMap, walk, gidx, failed, errors, regionSt>>

NextMatch == AskCounted \/ AskMatchers

SpecMatch == InitMatch /\ [][NextMatch]_vars

(***************************************************************************)
(* Specification SpecPair: the memory matcher is asked about a loop whose  *)
(* bound may live in a second scalar cell, and the engine selects the      *)
(* induction cell and the update of the loops the matcher accepts.         *)
(***************************************************************************)
PairShapes ==
  {"plain", "boundcell", "boundstored", "boundstoredfirst", "boundcopied"}

PairParams ==
  { p \in LoopParams : p.domain = "memory" /\ p.b <= 1 /\ p.c = 1 }

\* The comparison of the induction with the content of the second cell.
CellCmp(p) ==
  <<LoadOp(NV("L", "w.n"), NV("L", "cell")),
    IF p.swap THEN CmpIOp(p.pred, NV("L", "cond"), NV("L", "w.n"), NV("L", "w.ld"))
    ELSE CmpIOp(p.pred, NV("L", "cond"), NV("L", "w.ld"), NV("L", "w.n"))>>

\* The stores of the step block, in their order.
PairStores(shape) ==
  CASE shape = "boundstored" ->
         <<StoreOp(NV("L", "next"), NV("L", "iter")),
           StoreOp(NV("L", "A"), NV("L", "cell"))>>
    [] shape = "boundstoredfirst" ->
         <<StoreOp(NV("L", "A"), NV("L", "cell")),
           StoreOp(NV("L", "next"), NV("L", "iter"))>>
    [] shape = "boundcopied" ->
         <<StoreOp(NV("L", "next"), NV("L", "iter")),
           StoreOp(NV("L", "next"), NV("L", "cell"))>>
    [] OTHER -> <<StoreOp(NV("L", "next"), NV("L", "iter"))>>

PairLoop(p, shape) ==
  IF shape = "plain" THEN CountedLoop(p, "L", <<T>>)
  ELSE [CountedLoop(p, "L", <<T>>) EXCEPT
          !.regions[1][1] = WithOpBefore(@, 1, CellCmp(p)),
          !.regions[3][1] = WithOpBefore(@, 1, PairStores(shape))]

InitPair ==
  /\ \E p \in PairParams, shape \in PairShapes :
       loopSt = [phase |-> "asked", p |-> p, shape |-> shape,
                 op |-> PairLoop(p, shape), outer |-> MatchOuter(p),
                 counted |-> FALSE, phi |-> FALSE, lcv |-> FALSE,
                 pair |-> <<NoOp, NoOp>>]
  /\ pc = "pair"
  /\ input = <<>> /\ module = <<>> /\ infoMap = << >> /\ walk = 0 /\ gidx = 0
  /\ failed = FALSE /\ errors = <<>> /\ regionSt = IdleRegion

\* isaCountedLoop and the memory matcher are asked about the loop.
AskMemoryMatcher ==
  /\ pc = "pair"
  /\ loopSt' = [loopSt EXCEPT !.phase = "matched",
                  !.counted = isaCountedLoop(loopSt.op, loopSt.outer),
                  !.phi = hasMonotonicPHIControl(loopSt.op, loopSt.outer),
                  !.lcv = hasMonotonicLCV(loopSt.op, loopSt.outer)]
  /\ pc' = "pair.asked"
  /\ UNCHANGED <<input, module, infoMap, walk, gidx, failed, errors, regionSt>>

\* pair0 of cloneReversedLoop on a loop the recognizer has accepted.
SelectInductionPair ==
  /\ pc = "pair.asked"
  /\ loopSt.counted
  /\ loopSt' = [loopSt EXCEPT !.phase = "paired",
                  !.pair = inductionPair(loopSt.op,
                             LoopScope(loopSt.op, loopSt.outer),
                             DefiningOp(
                               Terminator(Back(getWhileRegion(loopSt.op))).operands[1],
                               LoopScope(loopSt.op, loopSt.outer)))]
  /\ pc' = "paired"
  /\ UNCHANGED <<input, module, infoMap, walk, gidx, failed, errors, regionSt>>

NextPair == AskMemoryMatcher \/ SelectInductionPair

SpecPair == InitPair /\ [][NextPair]_vars

(***************************************************************************)
(* Specification SpecValue: the value matcher is asked about a loop in the *)
(* value form whose condition or update departs from the expected form,    *)
(* and the engine recovers the step of the loops the matcher accepts.      *)
(***************************************************************************)
ValueShapes == {"plain", "truncated", "masked", "argument", "reversedsub"}

ValueParams ==
  { p \in LoopParams : p.domain = "value" /\ p.b <= 1 /\ p.c = 1 }

\* The while block whose condition is a second block argument.
ArgumentCondition(block) ==
  [block EXCEPT
     !.args = @ \o <<NV("L", "w1")>>,
     !.ops = DropBack(@) \o
             <<ConditionOp(NV("L", "w1"), <<NV("L", "w0"), NV("L", "w1")>>)>>]

ValueLoop(p, shape) ==
  CASE shape = "truncated" ->
         \* %cond = arith.trunci %iter : i64 to i1
         [CountedLoop(p, "L", <<T>>) EXCEPT !.regions[1][1] =
            WithOpBefore(@, 1, <<MkOp("trunci", "", <<NV("L", "w0")>>,
                                      <<NV("L", "cond")>>, <<>>)>>)]
    [] shape = "masked" ->
         \* %cond = arith.andi %cmp, %cmp
         [CountedLoop(p, "L", <<T>>) EXCEPT !.regions[1][1] =
            WithOpBefore(@, 1,
              <<IF p.swap
                  THEN CmpIOp(p.pred, NV("L", "cmp"), NV("L", "B"), NV("L", "w0"))
                  ELSE CmpIOp(p.pred, NV("L", "cmp"), NV("L", "w0"), NV("L", "B")),
                BinOp("andi", NV("L", "cond"), NV("L", "cmp"), NV("L", "cmp"))>>)]
    [] shape = "argument" ->
         [CountedLoop(p, "L", <<T>>) EXCEPT
            !.operands = @ \o <<NV("L", "A")>>,
            !.results = @ \o <<NV("L", "flag")>>,
            !.regions[1][1] = ArgumentCondition(@),
            !.regions[2][1] =
              [@ EXCEPT !.args = @ \o <<NV("L", "b1")>>,
                        !.ops = DropBack(@) \o
                                <<ContinueOp(<<NV("L", "b0"), NV("L", "b1")>>)>>],
            !.regions[3][1] =
              [@ EXCEPT !.args = @ \o <<NV("L", "s1")>>,
                        !.ops = DropBack(@) \o
                                <<ContinueOp(<<NV("L", "next"), NV("L", "s1")>>)>>]]
    [] shape = "reversedsub" ->
         \* %next = arith.subi %step, %iter
         [CountedLoop(p, "L", <<T>>) EXCEPT !.regions[3][1] =
            WithOpBefore(@, 1, <<BinOp("subi", NV("L", "next"), NV("L", "C"),
                                       NV("L", "s0"))>>)]
    [] OTHER -> CountedLoop(p, "L", <<T>>)

\* The operation defining the condition of the loop; NoOp when the
\* condition is a block argument.
ConditionDef(loop, outer) ==
  DefiningOp(Back(Back(getWhileRegion(loop)).ops).operands[1],
             LoopScope(loop, outer))

\* hasMonotonicPHIControl reads the operands of the operation defining the
\* condition without testing that there is one.
readsNullDefiningOp(loop, outer) ==
  /\ loop.operands # <<>> /\ loop.results # <<>>
  /\ Back(Back(getWhileRegion(loop)).ops).kind = "condition"
  /\ Back(getWhileRegion(loop)).args[1]
       = Back(Back(getWhileRegion(loop)).ops).operands[2]
  /\ ConditionDef(loop, outer) = NoOp

\* What a call of the value matcher can return: anything when it reads
\* through the null pointer.
valueMatcherOutcomes(loop, outer) ==
  IF readsNullDefiningOp(loop, outer) THEN BOOLEAN
  ELSE {hasMonotonicPHIControl(loop, outer)}

InitValue ==
  /\ \E p \in ValueParams, shape \in ValueShapes :
       loopSt = [phase |-> "asked", p |-> p, shape |-> shape,
                 op |-> ValueLoop(p, shape), outer |-> LoopOuter(p, "L"),
                 counted |-> FALSE, phi |-> FALSE, lcv |-> FALSE,
                 trip |-> <<NoVal, FALSE, FALSE>>]
  /\ pc = "value"
  /\ input = <<>> /\ module = <<>> /\ infoMap = << >> /\ walk = 0 /\ gidx = 0
  /\ failed = FALSE /\ errors = <<>> /\ regionSt = IdleRegion

\* The value matcher is asked about the loop.
AskValueMatcher ==
  /\ pc = "value"
  /\ \E accepted \in valueMatcherOutcomes(loopSt.op, loopSt.outer) :
       loopSt' = [loopSt EXCEPT !.phase = "matched", !.phi = accepted,
                    !.lcv = hasMonotonicLCV(loopSt.op, loopSt.outer)]
  /\ pc' = "value.asked"
  /\ UNCHANGED <<input, module, infoMap, walk, gidx, failed, errors, regionSt>>

\* trip0 of cloneReversedLoop on a loop the value matcher has accepted; the
\* cast of the condition's defining operation to arith.cmpi comes first.
RecoverStep ==
  /\ pc = "value.asked"
  /\ loopSt.phi
  /\ ConditionDef(loopSt.op, loopSt.outer).kind = "cmpi"
  /\ loopSt' = [loopSt EXCEPT !.phase = "stepped",
                  !.trip = trip0(Back(getStepRegion(loopSt.op)),
                             LoopScope(loopSt.op, loopSt.outer),
                             DefiningOp(
                               Back(Back(getStepRegion(loopSt.op)).ops).operands[1],
                               LoopScope(loopSt.op, loopSt.outer)),
                             TRUE, NoOp)]
  /\ pc' = "stepped"
  /\ UNCHANGED <<input, module, infoMap, walk, gidx, failed, errors, regionSt>>

NextValue == AskValueMatcher \/ RecoverStep

SpecValue == InitValue /\ [][NextValue]_vars

(***************************************************************************)
(* The canonicalization EraseScopeWhenNotNeeded of cc.scope.               *)
(***************************************************************************)
\* dyn_cast<MemoryEffectOpInterface>(op): the operations that declare their
\* memory effects (cc.alloca allocates, loads read, stores write, the
\* arithmetic operations have none).  Calls and the operations with regions
\* do not implement the interface.
implementsMemoryEffects(op) ==
  op.kind \in {"alloca", "load", "store", "constant", "addi", "subi", "cmpi"}

\* mem.hasEffect<MemoryEffects::Allocate>()
hasAllocateEffect(op) == op.kind = "alloca"

RECURSIVE hasAllocation(_), hasAllocationFrom(_, _), hasAllocationInRegions(_, _)
\* The walk over the operations `ops` of the blocks of a region from the
\* i-th on: the first operation implementing the interface returns.
hasAllocationFrom(ops, i) ==
  IF i > Len(ops) THEN FALSE
  ELSE IF implementsMemoryEffects(ops[i]) THEN hasAllocateEffect(ops[i])
  ELSE IF hasAllocationInRegions(ops[i].regions, 1) THEN TRUE
  ELSE hasAllocationFrom(ops, i + 1)

hasAllocationInRegions(regions, r) ==
  IF r > Len(regions) THEN FALSE
  ELSE IF hasAllocation(regions[r]) THEN TRUE
  ELSE hasAllocationInRegions(regions, r + 1)

hasAllocation(region) ==
  hasAllocationFrom(Flatten([b \in DOMAIN region |-> region[b].ops]), 1)

\* cf.br to the block at index `target` of the parent region.
BranchOp(target, operands) ==
  [MkOp("br", "", operands, <<>>, <<>>) EXCEPT !.imm = target]

\* The block arguments of the successor block, one per result of the scope.
SuccArgs(scope) == [i \in DOMAIN scope.results |-> NV("succ", scope.results[i].id)]

\* replaceOp(scope, succBlock->getArguments()) on the operations `ops`.
ReplaceUses(ops, scope) ==
  [k \in DOMAIN ops |->
     [ops[k] EXCEPT !.operands =
        [j \in DOMAIN @ |->
           IF \E i \in DOMAIN scope.results : scope.results[i] = @[j]
             THEN SuccArgs(scope)[CHOOSE i \in DOMAIN scope.results :
                                    scope.results[i] = @[j]]
             ELSE @[j]]]]

\* The region of the scope with the terminator of its last block replaced
\* by the branch to the successor block.
InlinedRegion(initRegion, succ) ==
  [initRegion EXCEPT ![Len(initRegion)] =
     WithTerminator(@, BranchOp(succ, Terminator(@).operands))]

\* The blocks of the parent after the scope, standing between the
\* operations `before` and `after` of one block, has been inlined.
inlineScope(scope, before, after) ==
  <<MkBlock(<<>>, before \o <<BranchOp(2, <<>>)>>)>>
  \o InlinedRegion(scope.regions[1], Len(scope.regions[1]) + 2)
  \o (IF scope.results = <<>> THEN <<>>
      ELSE <<MkBlock(SuccArgs(scope),
                     <<BranchOp(Len(scope.regions[1]) + 3, <<>>)>>)>>)
  \o <<MkBlock(<<>>, ReplaceUses(after, scope))>>

\* EraseScopeWhenNotNeeded::matchAndRewrite: the blocks of the parent.
eraseScopeWhenNotNeeded(scope, before, after) ==
  IF \E r \in DOMAIN scope.regions : hasAllocation(scope.regions[r])
    THEN <<MkBlock(<<>>, before \o <<scope>> \o after)>>
    ELSE inlineScope(scope, before, after)

(***************************************************************************)
(* Specification SpecScope: the canonicalization is applied to a scope     *)
(* whose region holds up to MaxScopeOps operations in front of its         *)
(* cc.continue.                                                            *)
(***************************************************************************)
MaxScopeOps == 3

ScopeOpKinds ==
  {"alloca", "load", "constant", "call", "scope.alloca", "scope.load"}

\* The i-th operation of the scope's block.
ScopeBodyOp(kind, i) ==
  CASE kind = "alloca" ->
         MkOp("alloca", "i64", <<>>, <<NV("S", <<"a1", "a2", "a3">>[i])>>, <<>>)
    [] kind = "load" ->
         LoadOp(NV("S", <<"v1", "v2", "v3">>[i]), NV("S", "p"))
    [] kind = "constant" -> ConstOp(NV("S", <<"c1", "c2", "c3">>[i]), 1)
    [] kind = "call" -> CallOp
    [] kind = "scope.alloca" ->
         ScopeOp(<<MkOp("alloca", "i64", <<>>,
                        <<NV("S", <<"n1", "n2", "n3">>[i])>>, <<>>)>>)
    [] OTHER ->
         ScopeOp(<<LoadOp(NV("S", <<"w1", "w2", "w3">>[i]), NV("S", "p"))>>)

ScopeBodies == UNION { [1..n -> ScopeOpKinds] : n \in 0..MaxScopeOps }

\* The scope with the operations of `kinds`; with a result it passes the
\* value %S.p of the parent on.
ScopeWith(kinds, withResult) ==
  MkOp("scope", "", <<>>,
       IF withResult THEN <<NV("S", "r")>> ELSE <<>>,
       << <<MkBlock(<<>>,
              [i \in DOMAIN kinds |-> ScopeBodyOp(kinds[i], i)]
              \o <<ContinueOp(IF withResult THEN <<NV("S", "p")>> ELSE <<>>)>>)>> >>)

\* op1 and op2 of the parent block.
ScopeBefore == <<MkOp("alloca", "i64", <<>>, <<NV("S", "p")>>, <<>>)>>

ScopeAfter(withResult) ==
  IF withResult THEN <<LoadOp(NV("S", "u"), NV("S", "r")), ReturnOp>>
  ELSE <<ReturnOp>>

InitScope ==
  /\ \E kinds \in ScopeBodies, withResult \in BOOLEAN :
       regionSt = [phase |-> "scope", scope |-> ScopeWith(kinds, withResult),
                   before |-> ScopeBefore, after |-> ScopeAfter(withResult),
                   region |-> <<MkBlock(<<>>,
                                  ScopeBefore \o <<ScopeWith(kinds, withResult)>>
                                  \o ScopeAfter(withResult))>>]
  /\ pc = "scope"
  /\ loopSt = IdleLoop
  /\ input = <<>> /\ module = <<>> /\ infoMap = << >> /\ walk = 0 /\ gidx = 0
  /\ failed = FALSE /\ errors = <<>>

\* The pattern is applied to the scope.
EraseScopeWhenNotNeeded ==
  /\ pc = "scope"
  /\ regionSt' = [regionSt EXCEPT !.phase = "canonical",
                    !.region = eraseScopeWhenNotNeeded(regionSt.scope,
                                 regionSt.before, regionSt.after)]
  /\ pc' = "canonical"
  /\ UNCHANGED <<input, module, infoMap, walk, gidx, failed, errors, loopSt>>

NextScope == EraseScopeWhenNotNeeded

SpecScope == InitScope /\ [][NextScope]_vars

(***************************************************************************)
(* Claims about the loop reversal engine.                                  *)
(***************************************************************************)
\* The loop is written in the direction its comparison expects, with the
\* induction on the left of the comparison.
WellDirected(p) ==
  /\ ~p.swap
  /\ \/ p.bump = "addi" /\ p.pred \in {"slt", "sle"} /\ p.a <= p.b
     \/ p.bump = "subi" /\ p.pred \in {"sgt", "sge"} /\ p.a >= p.b

\* C1: for a counted loop for (i = A; i cmp B; i = i +/- C) accepted by
\* isaCountedLoop, the loop built by cloneReversedLoop runs its body as many
\* times as the original and its induction variable takes the original's
\* values in reverse order.
C1_ReversedLoopRunsOriginalBackwards ==
  (pc = "ran" /\ WellDirected(loopSt.p) /\ Len(loopSt.otrace) < MaxIter)
    => loopSt.rtrace = Reverse(loopSt.otrace)

\* The engine has built the reversed loop.
Reversed == pc \in {"rev", "ran"}

\* n / d rounded toward zero.
SignedQuotient(n, d) ==
  IF (n >= 0) = (d > 0)
    THEN (IF n >= 0 THEN n ELSE 0 - n) \div (IF d > 0 THEN d ELSE 0 - d)
    ELSE 0 - ((IF n >= 0 THEN n ELSE 0 - n) \div (IF d > 0 THEN d ELSE 0 - d))

\* d: C for an add update and -C for a subtract update.
SignedStep(p) == IF p.bump = "addi" THEN p.c ELSE 0 - p.c

\* max(0, (B - A [+ d when the predicate is <= or >=]) / d)
ClaimedIterations(p) ==
  LET q == SignedQuotient(
             p.b - p.a + (IF p.pred \in {"sle", "sge"} THEN SignedStep(p) ELSE 0),
             SignedStep(p))
  IN IF q > 0 THEN q ELSE 0

\* C15: the engine computes iterations = max(0, (B - A [+ d for <= and >=])
\* / d) with signed division, d being C for an add and -C for a subtract,
\* and the new starting value A + (iterations - 1) * d.  The loop
\* for (i = 0; i < 10; i++) becomes 10 iterations from 9 down to 0, and
\* for (i = 0; i <= 10; i += 2) becomes 6 iterations from 10 down by 2.
C15_IterationsAndNewStart ==
  /\ Reversed =>
       /\ loopSt.iters = ClaimedIterations(loopSt.p)
       /\ loopSt.start
            = loopSt.p.a + (ClaimedIterations(loopSt.p) - 1) * SignedStep(loopSt.p)
  /\ (Reversed /\ loopSt.p \in LoopExamples /\ loopSt.p.c = 1) =>
       loopSt.iters = 10 /\ loopSt.start = 9
  /\ (pc = "ran" /\ loopSt.p \in LoopExamples /\ loopSt.p.c = 1) =>
       loopSt.rtrace = <<9, 8, 7, 6, 5, 4, 3, 2, 1, 0>>
  /\ (Reversed /\ loopSt.p \in LoopExamples /\ loopSt.p.c = 2) =>
       loopSt.iters = 6 /\ loopSt.start = 10
  /\ (pc = "ran" /\ loopSt.p \in LoopExamples /\ loopSt.p.c = 2) =>
       loopSt.rtrace = <<10, 8, 6, 4, 2, 0>>

\* for (i = 0; i <= 10; i += 2) reversed and run: 6 iterations from 10.
C15_Witness ==
  /\ pc = "ran"
  /\ loopSt.p \in LoopExamples
  /\ loopSt.p.pred = "sle"
  /\ loopSt.iters = 6
  /\ loopSt.rtrace = <<10, 8, 6, 4, 2, 0>>

\* C20 as stated: the original loop is as it was when the engine has built
\* the reversed loop, in both encodings.
C20_OriginalLoopIsNeverMutated ==
  Reversed => loopSt.orig = loopSt.loop

\* The operations of the original's step block are as they were but for
\* the induction update, which is now an add if it was a subtract and a
\* subtract if it was an add, with the same result and the same operands.
OnlyTheUpdateIsInverted(was, now) ==
  /\ Len(now) = Len(was)
  /\ \A i \in DOMAIN was :
       \/ now[i] = was[i]
       \/ /\ was[i].kind \in {"addi", "subi"}
          /\ now[i].kind \in {"addi", "subi"} \ {was[i].kind}
          /\ now[i].results = was[i].results
          /\ {now[i].operands[1], now[i].operands[2]}
               = {was[i].operands[1], was[i].operands[2]}
          /\ \E j \in DOMAIN was :
               /\ was[j].kind = "store"
               /\ was[j].operands[1] = was[i].results[1]
  /\ Cardinality({ i \in DOMAIN was : now[i] # was[i] }) = 1

\* C20 as amended: the engine never changes the condition and body regions
\* of the original loop; in the value encoding it leaves the step region
\* alone as well, and in the memory encoding it replaces the induction
\* update of the original's step region by its inverse and changes nothing
\* else.
C20_OnlyTheMemoryUpdateIsReplaced ==
  Reversed =>
    /\ [loopSt.orig EXCEPT !.regions[3] = loopSt.loop.regions[3]] = loopSt.loop
    /\ loopSt.p.domain = "value" => loopSt.orig = loopSt.loop
    /\ loopSt.p.domain = "memory" =>
         /\ Len(loopSt.orig.regions[3]) = 1
         /\ loopSt.orig.regions[3][1].args = loopSt.loop.regions[3][1].args
         /\ OnlyTheUpdateIsInverted(loopSt.loop.regions[3][1].ops,
                                    loopSt.orig.regions[3][1].ops)

\* A loop of the memory encoding reversed: its original now steps backwards.
C20_Witness ==
  /\ Reversed
  /\ loopSt.p.domain = "memory"
  /\ loopSt.orig # loopSt.loop

\* The trip counter: the last of the values the reversed loop carries.
TripCounter == Back(loopSt.carried)

\* The region's terminator and the operation defining its operand k.
TerminatorOperandDef(region, k) ==
  DefiningOp(Terminator(Back(region)).operands[k], Back(region).ops)

\* C22: continuation of the reversed loop depends only on the trip counter:
\* it enters the loop as iterations >= 0, the condition region continues iff
\* it is > 0, the body passes it through unchanged and the step region
\* decrements it by exactly 1; so the reversed loop always terminates, after
\* exactly `iterations` executions of the body, whatever the induction
\* variable does.
C22_TripCounterAloneDecides ==
  /\ Reversed =>
       /\ loopSt.iters >= 0
       /\ TerminatorOperandDef(getWhileRegion(loopSt.newLoop), 1).kind = "cmpi"
       /\ TerminatorOperandDef(getWhileRegion(loopSt.newLoop), 1).name = "sgt"
       /\ TerminatorOperandDef(getWhileRegion(loopSt.newLoop), 1).operands
            = <<Back(Back(getWhileRegion(loopSt.newLoop)).args), NV("R", "zero.w")>>
       /\ Back(Terminator(Back(getWhileRegion(loopSt.newLoop))).operands)
            = Back(Back(getWhileRegion(loopSt.newLoop)).args)
       /\ Back(Terminator(Back(getBodyRegion(loopSt.newLoop))).operands)
            = Back(Front(getBodyRegion(loopSt.newLoop)).args)
       /\ TerminatorOperandDef(getStepRegion(loopSt.newLoop),
            Len(Terminator(Back(getStepRegion(loopSt.newLoop))).operands))
            = BinOp("subi", NV("R", "dec"),
                    Back(Front(getStepRegion(loopSt.newLoop)).args),
                    NV("R", "one.s"))
  /\ pc = "rev" =>
       /\ loopSt.st.ok
       /\ loopSt.st.env[NV("R", "zero.w")] = 0
       /\ TripCounter = loopSt.iters - Len(loopSt.rtrace)
       /\ TripCounter >= 0
  /\ pc = "ran" =>
       /\ loopSt.st.ok
       /\ Len(loopSt.rtrace) = loopSt.iters
       /\ Back(loopSt.rfinal) = 0

\* A reversed loop has run its three iterations although its induction
\* variable moves away from the bound of the original test.
C22_Witness ==
  /\ pc = "ran"
  /\ loopSt.iters = 3
  /\ Len(loopSt.rtrace) = 3
  /\ loopSt.p.pred = "sge" /\ loopSt.p.bump = "addi"

\* C23: for every loop the recognizer accepts, value-domain loops with more
\* than one loop-carried value included, the loop built by cloneReversedLoop
\* satisfies the arity invariant LoopOp::verify checks, with exactly one
\* more carried value than the original, so that dropping the trailing
\* trip-counter result leaves as many results as the original loop had.
C23_ReversedLoopVerifies ==
  Reversed =>
    /\ verify(loopSt.newLoop)
    /\ Len(loopSt.newLoop.operands) = Len(loopSt.loop.operands) + 1
    /\ Len(DropBack(loopSt.newLoop.results)) = Len(loopSt.loop.results)

\* The same for the loops whose only loop-carried value, if any, is the
\* induction variable.
ReversedLoopVerifiesWithoutFurtherValues ==
  (Reversed /\ Len(loopSt.loop.operands) <= 1) =>
    /\ verify(loopSt.loop)
    /\ verify(loopSt.newLoop)
    /\ Len(loopSt.newLoop.operands) = Len(loopSt.loop.operands) + 1
    /\ Len(DropBack(loopSt.newLoop.results)) = Len(loopSt.loop.results)

\* Every loop given to the engine satisfies the invariant.
OriginalLoopVerifies == verify(loopSt.loop)

\* The induction update of a step block: the operation defining the first
\* operand of its continue in the value encoding, the stored value in the
\* memory encoding.
UpdateOf(loop, p) ==
  IF p.domain = "value"
    THEN TerminatorOperandDef(getStepRegion(loop), 1)
    ELSE DefiningOp(NV("L", "next"), Back(getStepRegion(loop)).ops)

\* The induction variable as the step block sees it.
StepInduction(p) ==
  IF p.domain = "value" THEN NV("L", "s0") ELSE NV("L", "s.ld")

\* The divisor of the trip-count arithmetic in front of the new loop.
Divisor == DefiningOp(NV("R", "iters2"), loopSt.pre).operands[2]

\* C24: the reversed loop's induction update is the inverse of the
\* original's for every operand order: for i + C and for C + i the reversed
\* step region computes i - C, and for i - C it computes i + C; the signed
\* step of the trip-count arithmetic is C for an add and 0 - C for a subtract.
C24_UpdateIsInverted ==
  Reversed =>
    /\ UpdateOf(loopSt.loop, loopSt.p).kind = loopSt.p.bump
    /\ UpdateOf(loopSt.loop, loopSt.p).operands
         = IF loopSt.p.commute THEN <<NV("L", "C"), StepInduction(loopSt.p)>>
           ELSE <<StepInduction(loopSt.p), NV("L", "C")>>
    /\ UpdateOf(loopSt.newLoop, loopSt.p).kind
         = IF loopSt.p.bump = "addi" THEN "subi" ELSE "addi"
    /\ UpdateOf(loopSt.newLoop, loopSt.p).operands
         = <<StepInduction(loopSt.p), NV("L", "C")>>
    /\ Divisor \in DOMAIN loopSt.st.env
    /\ loopSt.st.env[Divisor] = SignedStep(loopSt.p)

\* A loop with the update C + i reversed, in the memory encoding.
C24_Witness ==
  /\ Reversed
  /\ loopSt.p.commute /\ loopSt.p.domain = "memory" /\ loopSt.p.c = 2
  /\ UpdateOf(loopSt.newLoop, loopSt.p).kind = "subi"

\* The values defined in front of the loop.
DefinedOutside ==
  UNION { Range(loopSt.outer[i].results) : i \in DOMAIN loopSt.outer }

\* The values defined by the operations the engine has put in front of the
\* new loop before its operation k.
HoistedBefore(k) ==
  UNION { Range(loopSt.pre[i].results) : i \in 1..(k - 1) }

\* The values defined inside the regions of the original loop.
DefinedInside ==
  UNION { Range(op.results) : op \in NestedOps(loopSt.loop) }
  \cup UNION { Range(loopSt.loop.regions[r][1].args) : r \in 1..3 }

\* C25: the terminal-value and step-value expressions the engine places
\* before the new loop are self-contained: every operand of a hoisted
\* operation is a value defined outside the original loop's regions or the
\* result of another hoisted clone, never a value defined inside the
\* original loop, for sub-expressions of any depth.
C25_HoistedExpressionsAreSelfContained ==
  Reversed =>
    \A k \in DOMAIN loopSt.pre :
      \A v \in Range(loopSt.pre[k].operands) :
        /\ v \in DefinedOutside \cup HoistedBefore(k)
        /\ v \notin DefinedInside

\* The bound is a sum computed in the while block.
BoundIsASum ==
  DefiningOp(NV("L", "B"), Back(getWhileRegion(loopSt.loop)).ops).kind = "addi"

\* The step is a sum computed in the step block.
StepIsASum ==
  DefiningOp(NV("L", "C"), Back(getStepRegion(loopSt.loop)).ops).kind = "addi"

\* The same when the bound and the step are constants of the loop's blocks.
HoistedConstantsAreSelfContained ==
  (Reversed /\ ~BoundIsASum /\ ~StepIsASum) =>
    /\ loopSt.st.ok
    /\ \A k \in DOMAIN loopSt.pre :
         \A v \in Range(loopSt.pre[k].operands) :
           /\ v \in DefinedOutside \cup HoistedBefore(k)
           /\ v \notin DefinedInside

\* C16: for every counted loop recognized by isaCountedLoop, the reversed
\* loop is again a counted loop for isaCountedLoop, and reversed once more
\* it runs as many iterations as the original and ends with the original's
\* final carried value.
C16_ReversingTwiceRestoresTheLoop ==
  /\ pc = "asked" => loopSt.recounted
  /\ (pc = "ran2" /\ Len(loopSt.otrace) < MaxIter) =>
       /\ Len(loopSt.ttrace) = Len(loopSt.otrace)
       /\ loopSt.ofinal # <<>> =>
            loopSt.tfinal # <<>> /\ loopSt.tfinal[1] = loopSt.ofinal[1]

(***************************************************************************)
(* Claims about the variant synthesizer (specification SpecVariant).       *)
(***************************************************************************)
\* The kernel the module started with and the variants found in the module.
TheKernel == input[1]

AdjSym == lookupSymbol(module, "k.adj")

CtrlSym == lookupSymbol(module, "k.ctrl")

AdjCtrlSym == lookupSymbol(module, "k.adj.ctrl")

\* step1 is past the adjoint, and past the adjoint-control, of the kernel.
AdjointTried == gidx > 1 \/ pc = "step1.adjctrl"

AdjointControlTried == gidx > 1

\* The block of the function holds primitive gates and its return only.
GateOnly(f) ==
  /\ Len(f.body) = 1
  /\ Back(f.body[1].ops) = ReturnOp
  /\ \A i \in 1..(Len(f.body[1].ops) - 1) : f.body[1].ops[i].kind = "gate"

GatePositions(ops) ==
  SelectSeq([i \in DOMAIN ops |-> i], LAMBDA i : ops[i].kind = "gate")

\* What a gate is apart from its parameters and its is_adj flag.
GateShape(g) ==
  [name |-> g.name, seg |-> g.seg,
   qubits |-> SubSeq(g.operands, g.seg[1] + 1, Len(g.operands))]

SelfAdjointAndParameterFree(g) == Hermitian(g) /\ g.seg[1] = 0

\* C2: in the adjoint variant of a kernel whose block holds only primitive
\* gates, the gates stand immediately before the terminator in the reverse
\* of their original order; when every gate is self-adjoint and has no
\* parameter the adjoint holds the same operations, reversed, with no
\* negation and no is_adj flag changed.
C2_AdjointReversesTheGates ==
  (GateOnly(TheKernel) /\ AdjSym # NoFunc) =>
    LET G == DropBack(TheKernel.body[1].ops)
        A == AdjSym.body[1].ops
        P == GatePositions(A)
    IN /\ Back(A) = ReturnOp
       /\ \A i \in 1..(Len(A) - 1) : A[i].kind \in {"gate", "negf"}
       /\ Len(P) = Len(G)
       /\ \A i \in DOMAIN G : GateShape(A[P[i]]) = GateShape(G[Len(G) + 1 - i])
       /\ (\A i \in DOMAIN G : SelfAdjointAndParameterFree(G[i]))
            => A = Reverse(G) \o <<ReturnOp>>

C2_Witness ==
  /\ GateOnly(TheKernel) /\ AdjSym # NoFunc
  /\ LET G == DropBack(TheKernel.body[1].ops) IN
     /\ Len(G) = 3
     /\ G[1] # G[3]
     /\ \A i \in DOMAIN G : SelfAdjointAndParameterFree(G[i])

\* C3: the inversion of one primitive gate.  With a parameter, every
\* parameter of the new gate is the result of a negation of the original
\* parameter made in front of it and the is_adj flag is as it was; without
\* a parameter a gate that is not Hermitian has its is_adj flag toggled and
\* a Hermitian gate is copied unchanged.
C3_GateInversion ==
  (GateOnly(TheKernel) /\ AdjSym # NoFunc) =>
    LET G == DropBack(TheKernel.body[1].ops)
        A == AdjSym.body[1].ops
        P == GatePositions(A)
    IN /\ Len(P) = Len(G)
       /\ \A i \in DOMAIN G :
            LET g == G[i]
                pos == P[Len(G) + 1 - i]
                new == A[pos]
            IN IF g.seg[1] > 0
                 THEN /\ new.attrs = g.attrs
                      /\ GateShape(new) = GateShape(g)
                      /\ \A j \in 1..g.seg[1] :
                           /\ new.operands[j] # g.operands[j]
                           /\ \E n \in 1..(pos - 1) :
                                /\ A[n].kind = "negf"
                                /\ A[n].operands = <<g.operands[j]>>
                                /\ A[n].results = <<new.operands[j]>>
               ELSE IF ~Hermitian(g)
                 THEN new = [g EXCEPT !.attrs =
                               IF "is_adj" \in @ THEN @ \ {"is_adj"}
                               ELSE @ \cup {"is_adj"}]
               ELSE new = g

\* The kernel of the test adjoint-1.cpp: h, ry(theta), t; and one with
\* a parameterized gate that carries is_adj.
C3_Witness ==
  /\ GateOnly(TheKernel) /\ AdjSym # NoFunc
  /\ LET G == DropBack(TheKernel.body[1].ops) IN
     \/ G = <<H, RY, T>>
     \/ G = <<Sdg, CRZdg, H>>

\* The messages of the features a function has that the adjoint refuses.
RefusedFeatures(f) ==
  (IF regionHasUnstructuredControlFlow(f.body, <<>>)
     THEN {"cannot make adjoint of kernel with unstructured control flow"}
     ELSE {})
  \cup (IF \E op \in NestedOps(FuncAsOp(f)) : op.kind = "call"
          THEN {"cannot make adjoint of kernel with calls"} ELSE {})
  \cup (IF \E op \in NestedOps(FuncAsOp(f)) :
             op.kind \in {"create_lambda", "instantiate_callable"}
          THEN {"cannot make adjoint of kernel with callable expressions"}
          ELSE {})
  \cup (IF \E op \in NestedOps(FuncAsOp(f)) : op.kind = "measure"
          THEN {"cannot make adjoint of kernel with a measurement"} ELSE {})

\* C6: the adjoint synthesis of a kernel with unstructured control flow, a
\* call, a callable expression or a measurement reports an error naming a
\* feature the kernel has, signals pass failure and leaves no symbol for
\* the adjoint variant it failed to make.
C6_RefusedAdjointLeavesNoSymbol ==
  RefusedFeatures(TheKernel) # {} =>
    LET tried == (IF infoMap["k"].needsAdjointVariant /\ AdjointTried
                    THEN 1 ELSE 0)
                 + (IF infoMap["k"].needsAdjointControlVariant /\ AdjointControlTried
                      THEN 1 ELSE 0)
    IN /\ AdjSym = NoFunc
       /\ AdjCtrlSym = NoFunc
       /\ Len(errors) = tried
       /\ \A i \in DOMAIN errors : errors[i].msg \in RefusedFeatures(TheKernel)
       /\ tried > 0 => failed

C6_Witness ==
  /\ pc = "done"
  /\ failed
  /\ "cannot make adjoint of kernel with callable expressions"
       \in RefusedFeatures(TheKernel)
  /\ Len(errors) = 2
  /\ \E op \in NestedOps(FuncAsOp(TheKernel)) : op.kind = "measure"

\* step1 is at work or has ended.
InStep1 == pc \in {"step1", "step1.adj", "step1.adjctrl"}

\* C21: step 1 works only on clones: the kernel's signature and body are
\* the same during and after the synthesis of its control, adjoint and
\* adjoint-control variants as before it, whether the synthesis succeeds or
\* fails, and no other global takes its name.
C21_Step1WorksOnClones ==
  InStep1 =>
    /\ module[1] = TheKernel
    /\ lookupSymbol(module, "k") = TheKernel
    /\ \A i \in 2..Len(module) : module[i].name # "k"

\* The three variants of a kernel with a counted loop have been made.
C21_Witness ==
  /\ pc = "step1" /\ gidx > Len(module) /\ ~failed
  /\ CtrlSym # NoFunc /\ AdjSym # NoFunc /\ AdjCtrlSym # NoFunc
  /\ \E op \in NestedOps(FuncAsOp(TheKernel)) : op.kind = "loop"
  /\ module[1] = TheKernel

\* One operation of the control variant against the operation it was
\* made from.
RECURSIVE IsControlled(_, _)
IsControlled(new, old) ==
  /\ new.kind = old.kind
  /\ new.name = old.name
  /\ new.attrs = old.attrs
  /\ new.imm = old.imm
  /\ new.results = old.results
  /\ IF old.kind = "gate"
       THEN LET s0 == old.seg[1] IN
            /\ Len(new.operands) = Len(old.operands) + 1
            /\ new.operands[s0 + 1] = newCond
            /\ [i \in 1..Len(old.operands) |->
                  IF i <= s0 THEN new.operands[i] ELSE new.operands[i + 1]]
               = old.operands
            /\ new.seg = <<old.seg[1], old.seg[2] + 1, old.seg[3]>>
       ELSE /\ new.operands = old.operands
            /\ new.seg = old.seg
  /\ Len(new.regions) = Len(old.regions)
  /\ \A r \in DOMAIN old.regions :
       /\ Len(new.regions[r]) = Len(old.regions[r])
       /\ \A b \in DOMAIN old.regions[r] :
            /\ new.regions[r][b].args = old.regions[r][b].args
            /\ Len(new.regions[r][b].ops) = Len(old.regions[r][b].ops)
            /\ \A i \in DOMAIN old.regions[r][b].ops :
                 IsControlled(new.regions[r][b].ops[i], old.regions[r][b].ops[i])

\* C8: the control variant has the kernel's parameters with one
\* qubit-register parameter in front and the same results; every primitive
\* gate in it, at any depth, has the new parameter as one more operand at
\* the start of its control segment and segment sizes [s0, s1+1, s2]; every
\* other operation is unchanged.
C8_ControlVariant ==
  CtrlSym # NoFunc =>
    /\ CtrlSym.inputs = <<"qvec">> \o TheKernel.inputs
    /\ CtrlSym.results = TheKernel.results
    /\ Len(CtrlSym.body) = Len(TheKernel.body)
    /\ CtrlSym.body[1].args = <<newCond>> \o TheKernel.body[1].args
    /\ IsControlled(FuncAsOp([CtrlSym EXCEPT !.name = "k", !.body[1].args = Tail(@)]),
                    FuncAsOp(TheKernel))

\* A kernel with a gate that has a control already, nested in a region.
C8_Witness ==
  /\ CtrlSym # NoFunc
  /\ \E op \in NestedOps(FuncAsOp(TheKernel)) :
       /\ op.kind \in {"if", "loop", "scope"}
       /\ \E g \in NestedOps(op) : g.kind = "gate" /\ g.seg[2] > 0

\* C9: the adjoint-control variant is the adjoint transformation applied
\* to the control variant; the control variant is reused when the module
\* has one and made otherwise, so the module never holds two symbols named
\* name.ctrl.
C9_AdjointControlVariant ==
  /\ Cardinality({i \in DOMAIN module : module[i].name = "k.ctrl"}) <= 1
  /\ AdjCtrlSym # NoFunc =>
       /\ CtrlSym # NoFunc
       /\ AdjCtrlSym.inputs = <<"qvec">> \o TheKernel.inputs
       /\ LET made == createAdjointVariantOf(
                        [module |-> <<>>, failed |-> FALSE, errors |-> <<>>],
                        CtrlSym, "k.adj.ctrl")
          IN made.module = <<AdjCtrlSym>>
  /\ (infoMap["k"].needsAdjointControlVariant /\ AdjointControlTried)
       => CtrlSym # NoFunc

C9_Witness ==
  /\ pc = "done"
  /\ infoMap["k"].needsControlVariant
  /\ infoMap["k"].needsAdjointControlVariant
  /\ AdjCtrlSym # NoFunc
  /\ \E op \in NestedOps(FuncAsOp(AdjCtrlSym)) : op.kind = "negf"

(***************************************************************************)
(* Claims about the whole pass (specification SpecPass).                   *)
(***************************************************************************)
\* The name the rules of the specification give the callee of a site.
Mangled(site) ==
  site.name \o (IF "is_adj" \in site.attrs THEN ".adj" ELSE "")
            \o (IF site.seg[1] > 0 THEN ".ctrl" ELSE "")

\* The operations of the module of one kind at one location.
OpsAt(kind, loc) ==
  SelectSeq(ModuleOps(module), LAMBDA op : op.kind = kind /\ op.imm = loc)

Step2Failed ==
  \E i \in DOMAIN errors : errors[i].msg = "could not rewrite all apply ops."

C5_EveryCallNamesAFunction ==
  (pc = "done" /\ ~failed) =>
    \A i \in DOMAIN ModuleOps(module) :
      ModuleOps(module)[i].kind = "call"
        => lookupSymbol(module, ModuleOps(module)[i].name) # NoFunc

\* C7 as stated: once a failure is signalled nothing more is synthesized
\* and no apply-site is rewritten.
C7_FailFast == [][failed => module' = module]_vars

\* The variants the flags of the analysis ask for that can be made.
FlaggedVariantsMade ==
  \A k \in DOMAIN infoMap :
    LET f == lookupSymbol(input, k) IN
    /\ infoMap[k].needsControlVariant
         => lookupSymbol(module, k \o ".ctrl") # NoFunc
    /\ (infoMap[k].needsAdjointVariant /\ RefusedFeatures(f) = {})
         => lookupSymbol(module, k \o ".adj") # NoFunc
    /\ (infoMap[k].needsAdjointControlVariant /\ RefusedFeatures(f) = {})
         => lookupSymbol(module, k \o ".adj.ctrl") # NoFunc

\* C7: a precondition violation signals pass failure with its error, and
\* the failure is never taken back; the pass does not stop at it: step 1
\* still makes the variants of the other kernels and step 2 still rewrites
\* the apply-sites.
C7_FailureIsSignalledAndThePassGoesOn ==
  /\ [](errors # <<>> => failed)
  /\ [][failed => failed']_vars
  /\ [](pc = "done" => (FlaggedVariantsMade /\
                         \A i \in DOMAIN ApplyOps(module) :
                           "replaced" \in ApplyOps(module)[i].attrs))

C7_Witness ==
  /\ pc = "done"
  /\ failed
  /\ errors[1].loc = "k1"
  /\ lookupSymbol(module, "k2.adj") # NoFunc
  /\ \E i \in DOMAIN ModuleOps(module) : ModuleOps(module)[i].kind = "call"

\* The apply-sites of the module the pass was given that target kernel k.
SitesOf(k) ==
  { i \in DOMAIN ApplyOps(input) : ApplyOps(input)[i].name = k }

IsAdjSite(i) == "is_adj" \in ApplyOps(input)[i].attrs

HasControls(i) == ApplyOps(input)[i].seg[1] > 0

\* The entry of kernel k in the Variant Map; no flag when it has no entry.
VariantsOf(k) ==
  IF k \in DOMAIN infoMap THEN infoMap[k]
  ELSE [needsControlVariant |-> FALSE, needsAdjointVariant |-> FALSE,
        needsAdjointControlVariant |-> FALSE]

\* C17: after the analysis walk the entry of each kernel is exactly the set
\* of variants its apply-sites require: needs-adjoint-control iff some
\* apply-site targeting it is adjoint with controls, needs-adjoint iff some
\* apply-site is adjoint without controls, needs-control iff some apply-site
\* has controls and is not adjoint.
C17_VariantMapIsExact ==
  pc # "analysis" =>
    \A k \in {"k1", "k2"} :
      /\ VariantsOf(k).needsAdjointControlVariant
           = (\E i \in SitesOf(k) : IsAdjSite(i) /\ HasControls(i))
      /\ VariantsOf(k).needsAdjointVariant
           = (\E i \in SitesOf(k) : IsAdjSite(i) /\ ~HasControls(i))
      /\ VariantsOf(k).needsControlVariant
           = (\E i \in SitesOf(k) : ~IsAdjSite(i) /\ HasControls(i))

\* The operations that make the values `vs`, among those of the module.
MakersOf(vs) ==
  SelectSeq(ModuleOps(module),
            LAMBDA op : \E j \in DOMAIN op.results :
                          \E i \in DOMAIN vs : op.results[j] = vs[i])

\* C18: the call that replaces an apply-site with controls has as operands
\* one concatenation of all the controls followed by the original arguments
\* in order, and the call that replaces an apply-site without controls has
\* exactly the original arguments; the operand count is the parameter count
\* of the variant named: the kernel's plus one for .ctrl and .adj.ctrl, the
\* kernel's for .adj and the plain name.
C18_CallOperands ==
  pc = "done" =>
    \A i \in DOMAIN ApplyOps(input) :
      LET site == ApplyOps(input)[i]
          controls == SubSeq(site.operands, 1, site.seg[1])
          args == SubSeq(site.operands, site.seg[1] + 1, Len(site.operands))
          calls == OpsAt("call", site.imm)
          kernel == lookupSymbol(input, site.name)
      IN "replaced" \notin site.attrs =>
           /\ Len(calls) = 1
           /\ IF controls # <<>>
                THEN /\ Len(calls[1].operands) = 1 + Len(args)
                     /\ SubSeq(calls[1].operands, 2, Len(calls[1].operands)) = args
                     /\ Len(MakersOf(<<calls[1].operands[1]>>)) = 1
                     /\ MakersOf(<<calls[1].operands[1]>>)[1].kind = "concat"
                     /\ MakersOf(<<calls[1].operands[1]>>)[1].operands = controls
                     /\ Len(calls[1].operands) = Len(kernel.inputs) + 1
                ELSE /\ calls[1].operands = args
                     /\ Len(calls[1].operands) = Len(kernel.inputs)
           /\ lookupSymbol(module, calls[1].name) # NoFunc =>
                Len(calls[1].operands)
                  = Len(lookupSymbol(module, calls[1].name).inputs)

\* An adjoint apply-site with controls and a plain one with controls have
\* become calls of variants the module has.
C18_Witness ==
  /\ pc = "done"
  /\ \E i, j \in DOMAIN ApplyOps(input) :
       /\ ApplyOps(input)[i].attrs = {"is_adj"}
       /\ ApplyOps(input)[i].seg[1] = MaxControls
       /\ ApplyOps(input)[j].attrs = {}
       /\ ApplyOps(input)[j].seg[1] > 0
       /\ \A n \in {i, j} :
            /\ Len(OpsAt("call", ApplyOps(input)[n].imm)) = 1
            /\ lookupSymbol(module, OpsAt("call", ApplyOps(input)[n].imm)[1].name)
                 # NoFunc

(***************************************************************************)
(* Claims about the classifier (specification SpecClassify).               *)
(***************************************************************************)
\* A region is structured when it has no block, or one block in which every
\* operation that owns regions is an if, a counted loop or an operation of
\* at most one region, and every region of every such operation is
\* structured in its turn.
RECURSIVE Structured(_, _)
Structured(region, outer) ==
  \/ Len(region) = 0
  \/ /\ Len(region) = 1
     /\ \A op \in Range(region[1].ops) :
          Len(op.regions) > 0 =>
            /\ \/ op.kind = "if"
               \/ isaCountedLoop(op, outer \o region[1].ops)
               \/ Len(op.regions) <= 1
            /\ \A r \in DOMAIN op.regions :
                 Structured(op.regions[r], outer \o region[1].ops)

\* C10: the classifier calls a region structured exactly when it has no
\* block, or one block whose operations with regions are ifs, counted
\* loops or operations of at most one region with structured regions; a
\* region of more than one block is unstructured.
C10_ClassifierIsExact ==
  pc = "classified" =>
    /\ regionSt.unstructured = ~Structured(regionSt.region, <<>>)
    /\ Len(regionSt.region) > 1 => regionSt.unstructured

\* A structured region with a counted loop whose body holds an if.
C10_Witness ==
  /\ pc = "classified"
  /\ Len(regionSt.region) = 1
  /\ ~regionSt.unstructured
  /\ \E op \in Range(regionSt.region[1].ops) :
       /\ isaCountedLoop(op, regionSt.region[1].ops)
       /\ \E o \in NestedOps(op) : o.kind = "if"

RECURSIVE EveryLoopIsCounted(_, _)
\* Every cc.loop in the region, at any nesting depth and in any block, is a
\* counted loop for isaCountedLoop.
EveryLoopIsCounted(region, outer) ==
  \A b \in DOMAIN region :
    \A op \in Range(region[b].ops) :
      /\ op.kind = "loop" => isaCountedLoop(op, outer \o region[b].ops)
      /\ \A r \in DOMAIN op.regions :
           EveryLoopIsCounted(op.regions[r], outer \o region[b].ops)

\* C26: whenever the adjoint synthesis passes its check for unstructured
\* control flow, every loop construct of the kernel body at any nesting
\* depth has been accepted by isaCountedLoop, so that cloneReversedLoop is
\* only ever invoked on counted loops.
C26_OnlyCountedLoopsPassTheCheck ==
  (pc = "classified" /\ ~regionSt.unstructured) =>
    EveryLoopIsCounted(regionSt.region, <<>>)

\* A region that passes with a counted loop nested in a scope, in an if and
\* in another counted loop.
C26_Witness ==
  /\ pc = "classified"
  /\ ~regionSt.unstructured
  /\ Len(regionSt.region) = 1
  /\ \E op \in Range(regionSt.region[1].ops) :
       /\ op.kind \in {"scope", "if", "loop"}
       /\ \E o \in NestedOps(op) : o.kind = "loop"
  /\ EveryLoopIsCounted(regionSt.region, <<>>)

(***************************************************************************)
(* Claims about the recognition of counted loops (specification SpecMatch).*)
(***************************************************************************)
\* isaCountedLoop has answered about the operation.
CountedAsked == pc \in {"matchers", "matched"}

\* Both matchers have answered about the loop.
MatchersAsked == pc = "matched"

\* The forms isaCountedLoop turns down before it looks at the induction.
NotAForLoop(op) ==
  \/ op.kind # "loop"
  \/ "post_cond" \in op.attrs
  \/ op.regions[3] = <<>>
  \/ Len(op.regions[2]) # 1
  \/ op.regions[2][1].ops[Len(op.regions[2][1].ops)].kind # "continue"

\* C11: isaCountedLoop answers no for an operation that is not a loop, a
\* post-conditional loop, a loop without a step region and a loop whose body
\* is not one block ending in a continue; for every other loop its answer is
\* that of the monotonic-induction check.
C11_CountedLoopContract ==
  /\ CountedAsked /\ NotAForLoop(loopSt.op) => ~loopSt.counted
  /\ MatchersAsked /\ ~NotAForLoop(loopSt.op) =>
       loopSt.counted = (loopSt.lcv \/ loopSt.phi)

\* A for loop the induction check accepts, and so isaCountedLoop.
C11_Witness ==
  /\ MatchersAsked
  /\ ~NotAForLoop(loopSt.op)
  /\ loopSt.counted
  /\ loopSt.phi

\* The operation that defines the value v for the loop of the state.
DefOf(v) ==
  LET ops == loopSt.outer \o loopSt.op.regions[1][Len(loopSt.op.regions[1])].ops
               \o loopSt.op.regions[2][Len(loopSt.op.regions[2])].ops
               \o loopSt.op.regions[3][Len(loopSt.op.regions[3])].ops
  IN IF \E i \in DOMAIN ops : \E j \in DOMAIN ops[i].results : ops[i].results[j] = v
       THEN ops[CHOOSE i \in DOMAIN ops :
                  \E j \in DOMAIN ops[i].results : ops[i].results[j] = v]
       ELSE NoOp

LastBlock(r) == loopSt.op.regions[r][Len(loopSt.op.regions[r])]

LastOp(r) == LastBlock(r).ops[Len(LastBlock(r).ops)]

\* The three conditions on the value form: the comparison feeding the
\* condition terminator has the condition region's first block argument as
\* an operand, the body terminator passes the body's first block argument at
\* position 0, and position 0 of the step terminator is an add or a subtract
\* one of whose operands is the step region's first block argument.
ValueForm ==
  /\ LastOp(1).kind = "condition"
  /\ \E i \in DOMAIN DefOf(LastOp(1).operands[1]).operands :
       DefOf(LastOp(1).operands[1]).operands[i] = LastBlock(1).args[1]
  /\ LastOp(2).kind = "continue"
  /\ LastOp(2).operands[1] = LastBlock(2).args[1]
  /\ LastOp(3).kind = "continue"
  /\ DefOf(LastOp(3).operands[1]).kind \in {"addi", "subi"}
  /\ \E i \in DOMAIN DefOf(LastOp(3).operands[1]).operands :
       DefOf(LastOp(3).operands[1]).operands[i] = LastBlock(3).args[1]

HasCarriedValues == loopSt.op.operands # <<>> /\ loopSt.op.results # <<>>

\* C12 as stated: a loop with loop-carried values is accepted by the value
\* matcher exactly when the three conditions hold.
C12_ValueMatcherIsTheThreeConditions ==
  MatchersAsked /\ HasCarriedValues => loopSt.phi = ValueForm

\* The condition terminator forwards the condition region's first block
\* argument as its first result.
ForwardsTheInduction == LastOp(1).operands[2] = LastBlock(1).args[1]

\* C12 as amended: a loop with loop-carried values is accepted by the value
\* matcher exactly when the condition terminator forwards the condition
\* region's first block argument first and the three conditions hold; a
\* loop without loop-carried values is not accepted.
C12_ValueMatcherAlsoChecksTheForward ==
  MatchersAsked =>
    loopSt.phi = (HasCarriedValues /\ ForwardsTheInduction /\ ValueForm)

\* A loop of the three conditions whose condition terminator forwards
\* another value: the matcher turns it down.
C12_Witness ==
  /\ MatchersAsked
  /\ HasCarriedValues
  /\ ValueForm
  /\ ~ForwardsTheInduction
  /\ ~loopSt.phi

\* The candidate cells: the scalar integer cells loaded in the expression of
\* the condition's comparison.
CandidateCells ==
  { c \in { loopSt.outer[i].results[1] :
              i \in { j \in DOMAIN loopSt.outer :
                        /\ loopSt.outer[j].kind = "alloca"
                        /\ loopSt.outer[j].name = "i64" } } :
      \E i \in DOMAIN LastBlock(1).ops :
        /\ LastBlock(1).ops[i].kind = "load"
        /\ LastBlock(1).ops[i].operands[1] = c
        /\ \E k \in DOMAIN DefOf(LastOp(1).operands[1]).operands :
             DefOf(LastOp(1).operands[1]).operands[k]
               = LastBlock(1).ops[i].results[1] }

\* The operand k of the add or subtract the store at i stores is a load of
\* the candidate cell the store targets.
StoreMatches(i, k) ==
  LET storeOp == LastBlock(3).ops[i] IN
  /\ storeOp.kind = "store"
  /\ storeOp.operands[2] \in CandidateCells
  /\ DefOf(storeOp.operands[1]).kind \in {"addi", "subi"}
  /\ DefOf(DefOf(storeOp.operands[1]).operands[k]).kind = "load"
  /\ DefOf(DefOf(storeOp.operands[1]).operands[k]).operands[1]
       = storeOp.operands[2]

\* The stores of the step region that target a candidate cell and store an
\* add or subtract of a load of that cell.
MatchingStores ==
  { i \in DOMAIN LastBlock(3).ops : StoreMatches(i, 1) \/ StoreMatches(i, 2) }

\* C13 as stated: the memory matcher accepts a loop exactly when the step
\* region has exactly one matching store.
C13_MemoryMatcherIsOneStore ==
  MatchersAsked => loopSt.lcv = (Cardinality(MatchingStores) = 1)

\* The condition terminator is fed by an integer comparison.
ComparisonFeedsTheCondition ==
  /\ LastOp(1).kind = "condition"
  /\ DefOf(LastOp(1).operands[1]).kind = "cmpi"

\* C13 as amended: the memory matcher accepts a loop exactly when the loop
\* does not have both initial arguments and results, an integer comparison
\* feeds its condition terminator, and the matching stores of the step
\* region have between them exactly one operand that loads the cell: no
\* store, two stores, and one store of an add of two loads of the cell are
\* all turned down.
C13_MemoryMatcherCountsTheLoads ==
  MatchersAsked =>
    loopSt.lcv =
      /\ ~HasCarriedValues
      /\ ComparisonFeedsTheCondition
      /\ Cardinality({ m \in (DOMAIN LastBlock(3).ops) \X {1, 2} :
                         StoreMatches(m[1], m[2]) }) = 1

\* One matching store whose add loads the cell twice: turned down.
C13_Witness ==
  /\ MatchersAsked
  /\ ~HasCarriedValues
  /\ Cardinality(MatchingStores) = 1
  /\ \E i \in MatchingStores : StoreMatches(i, 1) /\ StoreMatches(i, 2)
  /\ ~loopSt.lcv

\* C27: for every loop the memory matcher accepts, the induction cell and
\* the update the reversal engine selects are the cell and the add or
\* subtract of the unique store the matcher counted, also when the step
\* region stores to more than one cell of the comparison.
C27_EngineSelectsTheMatchedStore ==
  (pc = "paired" /\ loopSt.lcv) =>
    /\ Cardinality(MatchingStores) = 1
    /\ \A i \in MatchingStores :
         /\ loopSt.pair[1] = DefOf(LastBlock(3).ops[i].operands[2])
         /\ loopSt.pair[2] = DefOf(LastBlock(3).ops[i].operands[1])

\* The stores of the step region that target a candidate cell.
StoresToCandidates ==
  { i \in DOMAIN LastBlock(3).ops :
      /\ LastBlock(3).ops[i].kind = "store"
      /\ LastBlock(3).ops[i].operands[2] \in CandidateCells }

\* The same when the matched store is the last store of the step region to a
\* cell of the comparison.
EngineSelectsTheMatchedStoreWhenItIsLast ==
  (pc = "paired" /\ loopSt.lcv
     /\ \A i \in MatchingStores : \A j \in StoresToCandidates : j <= i) =>
    /\ Cardinality(MatchingStores) = 1
    /\ \A i \in MatchingStores :
         /\ loopSt.pair[1] = DefOf(LastBlock(3).ops[i].operands[2])
         /\ loopSt.pair[2] = DefOf(LastBlock(3).ops[i].operands[1])

\* A loop with two stores to cells of the comparison, the matched one last,
\* has been paired.
MatchedStoreLastOfTwo ==
  /\ pc = "paired" /\ loopSt.lcv
  /\ loopSt.shape = "boundstoredfirst"
  /\ Cardinality(StoresToCandidates) = 2

\* C28: every loop the value matcher accepts has its condition produced by
\* an integer comparison, never by another kind of operation or by no
\* operation (a block argument).
C28_AcceptedConditionIsAComparison ==
  (pc = "value.asked" /\ loopSt.phi) =>
    ConditionDef(loopSt.op, loopSt.outer).kind = "cmpi"

\* The same for the loops whose condition is defined by an operation that
\* does not have the induction among its operands, or by a comparison.
AcceptedConditionIsAComparisonOfTheInduction ==
  (pc = "value.asked" /\ loopSt.phi
     /\ loopSt.shape \in {"plain", "masked", "reversedsub"}) =>
    ConditionDef(loopSt.op, loopSt.outer).kind = "cmpi"

\* The update of the loop: the operation defining what the step block
\* passes on.
MutateOp ==
  DefiningOp(Back(Back(getStepRegion(loopSt.op)).ops).operands[1],
             LoopScope(loopSt.op, loopSt.outer))

StepInductionArg == Back(getStepRegion(loopSt.op)).args[1]

\* C29: every loop the value matcher accepts whose update is a subtraction
\* has the induction argument as the left operand, and the operand the
\* engine extracts as the step is not the induction argument.
C29_SubtractionHasTheInductionOnTheLeft ==
  (pc = "stepped" /\ loopSt.phi /\ MutateOp.kind = "subi") =>
    /\ MutateOp.operands[1] = StepInductionArg
    /\ loopSt.trip[1] # StepInductionArg

\* The same for the updates in the form the front end writes.
FrontEndSubtractionHasTheInductionOnTheLeft ==
  (pc = "stepped" /\ loopSt.phi /\ MutateOp.kind = "subi"
     /\ loopSt.shape = "plain") =>
    /\ MutateOp.operands[1] = StepInductionArg
    /\ loopSt.trip[1] # StepInductionArg

\* The step of an accepted loop with a subtraction has been recovered.
SubtractionStepRecovered ==
  pc = "stepped" /\ loopSt.phi /\ MutateOp.kind = "subi"
    /\ loopSt.shape = "plain"

\* C14: no loop is accepted by both the value matcher and the memory
\* matcher.
C14_MatchersAreExclusive ==
  MatchersAsked => ~(loopSt.phi /\ loopSt.lcv)

\* A loop of the value form that also compares and bumps a cell: only the
\* value matcher accepts it.
C14_Witness ==
  /\ MatchersAsked
  /\ loopSt.phi
  /\ ~loopSt.lcv
  /\ Cardinality(MatchingStores) = 1

(***************************************************************************)
(* Claims about the reversal of a block (specification SpecReverse).       *)
(***************************************************************************)
\* The inverse of an applied gate: itself when it is its own inverse, the
\* gate of the negated parameters when it has parameters, and otherwise
\* the gate with is_adj toggled.
InverseOf(g) ==
  IF Hermitian(g) THEN g
  ELSE IF g.params # <<>>
    THEN [g EXCEPT !.params = [i \in DOMAIN g.params |-> 0 - g.params[i]]]
  ELSE [g EXCEPT !.adj = ~@]

InReverse(gates) == [i \in DOMAIN gates |-> InverseOf(gates[Len(gates) + 1 - i])]

\* The kernel and its adjoint variant have been run to their returns.
BothRan == pc = "both" /\ loopSt.original.ok /\ loopSt.adjoint.ok

RECURSIVE QuantumOpsOf(_)

QuantumOpsIn(region) == IF region = <<>> THEN <<>> ELSE QuantumOpsOf(region[1])

\* What a quantum operation is for the order of a block: the gate and its
\* qubits, the if and its condition, the scope or the loop, with the
\* quantum operations of its regions (of a loop, of its body).
QuantumOp(op) ==
  [kind |-> op.kind,
   name |-> IF op.kind = "gate" THEN op.name ELSE "",
   on |-> IF op.kind = "gate"
            THEN SubSeq(op.operands, op.seg[1] + 1, Len(op.operands))
          ELSE IF op.kind = "if" THEN op.operands
          ELSE <<>>,
   inner |-> IF op.kind = "if"
               THEN <<QuantumOpsIn(op.regions[1]), QuantumOpsIn(op.regions[2])>>
             ELSE IF op.kind = "scope" THEN <<QuantumOpsIn(op.regions[1])>>
             ELSE IF op.kind = "loop" THEN <<QuantumOpsIn(getBodyRegion(op))>>
             ELSE <<>>]

\* The quantum operations of a block in their order.
QuantumOpsOf(block) ==
  [i \in DOMAIN SelectSeq(block.ops, hasQuantum) |->
     QuantumOp(SelectSeq(block.ops, hasQuantum)[i])]

RECURSIVE Backwards(_)
\* The same operations in the reversed order, in every region.
Backwards(qops) ==
  [i \in DOMAIN qops |->
     [qops[Len(qops) + 1 - i] EXCEPT
        !.inner = [r \in DOMAIN @ |-> Backwards(@[r])]]]

\* C19: when a block is reversed, an if, scope or loop that contains quantum
\* operations takes its reversed position among the quantum operations of the
\* block; the if keeps its condition and both branches are reversed, the
\* scope's region is reversed, and the loop is replaced by its reversed loop
\* with a reversed body, so that for fixed branch outcomes and loop bounds
\* the gates the adjoint kernel executes are those of the original in the
\* reverse order (each one inverted).
C19_AdjointExecutesTheGatesInReverse ==
  /\ pc \in {"made", "kernel", "both"} =>
       QuantumOpsOf(module[2].body[1]) = Backwards(QuantumOpsOf(module[1].body[1]))
  /\ BothRan => loopSt.adjoint.gates = InReverse(loopSt.original.gates)

\* The stride of the loop divides its range, or the comparison is <=.
ExactStride(p) == p.pred = "sle" \/ (p.b >= p.a /\ (p.b - p.a) % p.c = 0)

\* The blocks are reversed in every kernel, and the gates are executed in
\* reverse when the reversed loop runs as many times as the loop.
ReversedWhenTheLoopIsExact ==
  /\ pc \in {"made", "kernel", "both"} =>
       QuantumOpsOf(module[2].body[1]) = Backwards(QuantumOpsOf(module[1].body[1]))
  /\ (BothRan /\ ExactStride(loopSt.p)) =>
       loopSt.adjoint.gates = InReverse(loopSt.original.gates)

\* A kernel whose loop runs at least twice has been reversed and run.
ReversedLoopRan ==
  /\ BothRan /\ ExactStride(loopSt.p)
  /\ loopSt.shape = "looploop"
  /\ Len(loopSt.original.gates) > 6

(***************************************************************************)
(* Claims about the canonicalization of cc.scope.  Specification           *)
(* SpecScope.                                                              *)
(***************************************************************************)
\* The scope is no longer an operation of the parent.
ScopeErased ==
  \A b \in DOMAIN regionSt.region :
    \A i \in DOMAIN regionSt.region[b].ops :
      regionSt.region[b].ops[i].kind # "scope"
        \/ regionSt.region[b].ops[i] # regionSt.scope

\* Some operation of the scope's region, at any depth, allocates.
ScopeAllocates == \E op \in NestedOps(regionSt.scope) : hasAllocateEffect(op)

\* C30: the scope is inlined into its parent only when no operation of its
\* region, at any position and nesting depth, has an allocation effect; a
\* scope that contains an allocation is never erased.
C30_AllocatingScopeIsNeverErased ==
  (pc = "canonical" /\ ScopeAllocates) => ~ScopeErased

\* The same for the scopes in which no operation declaring other memory
\* effects, or none, comes in front of the first allocation.
AllocatingScopeIsKeptWhenTheAllocationComesFirst ==
  (pc = "canonical" /\ ScopeAllocates
     /\ \A op \in NestedOps(regionSt.scope) :
          implementsMemoryEffects(op) => hasAllocateEffect(op)) =>
    ~ScopeErased

\* A scope with an allocation behind a call and a nested scope has been
\* kept.
AllocatingScopeKept ==
  /\ pc = "canonical" /\ ScopeAllocates /\ ~ScopeErased
  /\ Len(regionSt.scope.regions[1][1].ops) = 4
  /\ regionSt.scope.regions[1][1].ops[1].kind = "call"
  /\ regionSt.scope.regions[1][1].ops[3].kind = "scope"

====
